---- MODULE Spec2Model ----
(***************************************************************************)
(* Transport and command layer of the pycs debug-probe drivers.            *)
(*                                                                         *)
(*   family A  src/jlink.py   class JLink  (bulk transport, capabilities)  *)
(*   family B  src/stlink.py  class stlink (send_recv, mode bring-up)      *)
(*                                                                         *)
(* A call of a driver method is one action.  What the USB device does      *)
(* during the call (what every bulk write accepts, what every bulk read    *)
(* returns) is an input of the action: a script of responses, one per      *)
(* bulk transfer the method issues.  stlink.__init__ is followed call by   *)
(* call (st_pc), each of its calls being one action.                       *)
(***************************************************************************)
EXTENDS Integers, Sequences, FiniteSets, TLC

(***************************************************************************)
(* Bounds of the model.                                                    *)
(***************************************************************************)
\* largest size passed to a direct read_data_bytes call
MaxSize == 3
\* largest attempt budget passed to a direct read_data_bytes call
MaxAttempt == 2
\* longest payload passed to a direct write_data call
MaxPayload == 2
\* largest write-chunk size (writebuffer_chunksize, 4 KiB in the source)
MaxChunk == 2
\* most unread bytes the device may come to hold through a call: a call is
\* explored when the answer to all it writes fits (see Room)
MaxPending == 4
\* the same for get_version, whose answer is the longest
MaxPendingVersion == 9
\* length of the configuration block the device answers (256 in the source)
DevConfigLen == 2

(***************************************************************************)
(* Program constants, src/jlink.py.                                        *)
(***************************************************************************)
EMU_CMD_VERSION == 1
EMU_CMD_RESET_TRST == 2
EMU_CMD_GET_MAX_MEM_BLOCK == 212
EMU_CMD_GET_CAPS == 232
EMU_CMD_GET_HW_VERSION == 240
EMU_CMD_READ_CONFIG == 242
EMU_CAP_GET_HW_VERSION == 1
EMU_CAP_READ_CONFIG == 4
EMU_CAP_GET_MAX_BLOCK_SIZE == 11
\* size of the configuration block get_config asks for
CONFIG_SIZE == 256

VARIABLES
  \* ---- JLink object (family A) / usbdev object (family B)
  opened,                 \* usb_dev, interface and max_packet_size are assigned
  max_packet_size,        \* self.max_packet_size (meaningful when opened)
  readbuffer,             \* self.readbuffer
  readoffset,             \* self.readoffset
  writebuffer_chunksize,  \* self.writebuffer_chunksize
  caps_known,             \* self.caps is assigned
  caps,                   \* self.caps (meaningful when caps_known)
  \* ---- the device
  dev_caps,               \* the capability mask the adapter reports
  dev_mps,                \* wMaxPacketSize of its first endpoint
  dev_out,                \* bytes the device holds ready, oldest first
  \* ---- stlink object (family B) and its adapter
  st_pc,                  \* position of stlink.__init__ (lines 144-150)
  api,                    \* self.api: "unset" until get_version assigns it
  wrappers,               \* exit_dfu_mode and enter_swd_mode are defined
  trace,                  \* the calls __init__ has made, in order
  dev_mode,               \* the mode the adapter is in
  dev_version,            \* the six bytes it answers to GET_VERSION
  \* ---- the hardware version line of __str__ (lines 342-349)
  dev_hw,                 \* type, major, minor, revision of the adapter
  hw_decoded,             \* what __str__ made of the hardware version
  \* ---- observation
  pc,                     \* "idle", or "returned": a call has just ended
  last,                   \* the last call: arguments, pre-state, I/O, outcome
  received,               \* bytes bulk reads delivered  } histories, kept
  returned,               \* bytes logical reads returned } without their
                          \*                               common prefix
  usb_error_seen          \* a bulk transfer has raised USBError

vars == << opened, max_packet_size, readbuffer, readoffset,
           writebuffer_chunksize, caps_known, caps, dev_caps, dev_mps, dev_out,
           st_pc, api, wrappers, trace, dev_mode, dev_version,
           dev_hw, hw_decoded, pc, last, received, returned, usb_error_seen >>

stvars == << st_pc, api, wrappers, trace, dev_mode, dev_version >>

hwvars == << dev_hw, hw_decoded >>

(***************************************************************************)
(* Sequences as Python sees them.                                          *)
(***************************************************************************)
Min(a, b) == IF a <= b THEN a ELSE b
Max(a, b) == IF a >= b THEN a ELSE b

\* s[a:b] for 0 <= a, 0 <= b: clipped to the sequence, empty when a >= b
PySlice(s, a, b) == SubSeq(s, a + 1, Min(b, Len(s)))

\* s[a:]
PyTail(s, a) == SubSeq(s, a + 1, Len(s))

RECURSIVE Concat(_)
Concat(ss) == IF ss = << >> THEN << >> ELSE Head(ss) \o Concat(Tail(ss))

IsPrefix(p, s) == Len(p) <= Len(s) /\ SubSeq(s, 1, Len(p)) = p

RECURSIVE CommonPrefixLen(_, _)
CommonPrefixLen(a, b) ==
  IF a = << >> \/ b = << >> \/ Head(a) # Head(b) THEN 0
  ELSE 1 + CommonPrefixLen(Tail(a), Tail(b))

RECURSIVE SeqsUpTo(_, _)
SeqsUpTo(S, n) ==
  IF n = 0 THEN { << >> }
  ELSE LET shorter == SeqsUpTo(S, n - 1)
       IN  shorter \cup { Append(s, x) : s \in shorter, x \in S }

RECURSIVE Pow2(_)
Pow2(n) == IF n = 0 THEN 1 ELSE 2 * Pow2(n - 1)

(***************************************************************************)
(* Unsigned 32-bit values.  TLC's integers are 32-bit signed, so a 32-bit *)
(* unsigned value v is held as its two 16-bit halves,                      *)
(* v = hi * 65536 + lo.                                                    *)
(***************************************************************************)
U32(hi, lo) == [hi |-> hi, lo |-> lo]

\* struct.pack('<I', v), as the adapter does it
pack_u32(v) == << v.lo % 256, v.lo \div 256, v.hi % 256, v.hi \div 256 >>

\* struct.unpack('<I', x)[0] of four bytes
unpack_u32(x) == U32(x[3] + 256 * x[4], x[1] + 256 * x[2])

\* a & b of two 16-bit values
RECURSIVE BitAnd16(_, _, _)
BitAnd16(a, b, n) ==
  IF n = 0 THEN 0
  ELSE (a % 2) * (b % 2) + 2 * BitAnd16(a \div 2, b \div 2, n - 1)

\* a & b
BitAnd(a, b) == U32(BitAnd16(a.hi, b.hi, 16), BitAnd16(a.lo, b.lo, 16))

\* 1 << n, n < 32
Shl1(n) == IF n < 16 THEN U32(0, Pow2(n)) ELSE U32(Pow2(n - 16), 0)

\* truth value of a number
Truthy(v) == v # U32(0, 0)

(***************************************************************************)
(* How a call ends: "ok" (it returned), or the exception it raised.  The   *)
(* JLinkError cases carry the message of the raise statement.              *)
(***************************************************************************)
ErrBulkWrite == "JLinkError: Usb bulk write error"
ErrUsb == "JLinkError: UsbError"
ErrBogus == "JLinkError: max_packet_size is bogus"
ErrInternal == "JLinkError: Internal error"
ErrUnsupported == "JLinkError: not supported"
JLinkErrors == { ErrBulkWrite, ErrUsb, ErrBogus, ErrInternal, ErrUnsupported }

(***************************************************************************)
(* JLink.write_data.  script: one response per bulk write, each            *)
(* [err |-> the transfer raised USBError, ret |-> the length it returned]. *)
(* The outcome "starved" says the script ended before the method did.      *)
(***************************************************************************)
WriteResult(outcome, value, writes) ==
  [outcome |-> outcome, value |-> value, writes |-> writes]

\* self._write(chunk): usb_dev is None until open has run
RECURSIVE write_loop(_, _, _, _, _, _)
write_loop(isopen, chunksize, data, offset, script, writes) ==
  LET size == Len(data)
  IN
  IF ~(offset < size) THEN WriteResult("ok", offset, writes)
  ELSE
    LET write_size == IF offset + chunksize > size THEN size - offset
                      ELSE chunksize
        chunk == PySlice(data, offset, offset + write_size)
        k == Len(writes)
    IN
    IF ~isopen THEN WriteResult("AttributeError", 0, writes)
    ELSE IF k >= Len(script) THEN WriteResult("starved", 0, writes)
    ELSE
      LET r == script[k + 1]
          ev == [chunk |-> chunk, err |-> r.err, ret |-> r.ret]
      IN
      IF r.err THEN WriteResult(ErrUsb, 0, Append(writes, ev))
      ELSE IF r.ret <= 0 THEN WriteResult(ErrBulkWrite, 0, Append(writes, ev))
      ELSE write_loop(isopen, chunksize, data, offset + r.ret, script,
                      Append(writes, ev))

\* as write_data, but the offset advances by the size of the chunk handed
\* to the bulk write, whatever length the bulk write returned
RECURSIVE write_loop_by_chunk(_, _, _, _, _, _)
write_loop_by_chunk(isopen, chunksize, data, offset, script, writes) ==
  LET size == Len(data)
  IN
  IF ~(offset < size) THEN WriteResult("ok", offset, writes)
  ELSE
    LET write_size == IF offset + chunksize > size THEN size - offset
                      ELSE chunksize
        chunk == PySlice(data, offset, offset + write_size)
        k == Len(writes)
    IN
    IF ~isopen THEN WriteResult("AttributeError", 0, writes)
    ELSE IF k >= Len(script) THEN WriteResult("starved", 0, writes)
    ELSE
      LET r == script[k + 1]
          ev == [chunk |-> chunk, err |-> r.err, ret |-> r.ret]
      IN
      IF r.err THEN WriteResult(ErrUsb, 0, Append(writes, ev))
      ELSE write_loop_by_chunk(isopen, chunksize, data, offset + write_size,
                               script, Append(writes, ev))

write_data_by_chunk(isopen, chunksize, data, script) ==
  write_loop_by_chunk(isopen, chunksize, data, 0, script, << >>)

write_data(isopen, chunksize, data, script) ==
  write_loop(isopen, chunksize, data, 0, script, << >>)

\* the bytes the device took from one bulk write
Accepted(ev) ==
  IF ev.err \/ ev.ret <= 0 THEN << >> ELSE PySlice(ev.chunk, 0, ev.ret)

\* the bytes the device took during a call, in order
RECURSIVE OnWire(_)
OnWire(writes) ==
  IF writes = << >> THEN << >>
  ELSE Accepted(Head(writes)) \o OnWire(Tail(writes))

(***************************************************************************)
(* JLink.read_data_bytes.  script: one response per bulk read, each        *)
(* [err |-> the transfer raised USBError, raw |-> the buffer it returned]. *)
(***************************************************************************)
ReadResult(outcome, data, buf, off, reads) ==
  [outcome |-> outcome, data |-> data, readbuffer |-> buf,
   readoffset |-> off, reads |-> reads]

\* lines 247-255: the new cache built from the raw buffer, one slice of
\* `count` bytes per packet_size quantum
RECURSIVE dechunk_loop(_, _, _, _, _, _)
dechunk_loop(tempbuf, packet_size, count, chunks, srcoff, acc) ==
  IF chunks = 0 THEN acc
  ELSE dechunk_loop(tempbuf, packet_size, count, chunks - 1,
                    srcoff + packet_size,
                    acc \o PySlice(tempbuf, srcoff, srcoff + count))

\* as dechunk, but two status bytes are skipped at the head of every packet
dechunk_skip_status(tempbuf, packet_size) ==
  LET length == Len(tempbuf)
      chunks == (length + packet_size - 1) \div packet_size
      count == packet_size - 2
  IN  dechunk_loop(tempbuf, packet_size, count, chunks, 2, << >>)

\* as dechunk, but one status byte is skipped at the head of every packet
dechunk_skip_one_status(tempbuf, packet_size) ==
  LET length == Len(tempbuf)
      chunks == (length + packet_size - 1) \div packet_size
      count == packet_size - 1
  IN  dechunk_loop(tempbuf, packet_size, count, chunks, 1, << >>)

dechunk(tempbuf, packet_size) ==
  LET length == Len(tempbuf)
      chunks == (length + packet_size - 1) \div packet_size
      count == packet_size
  IN  dechunk_loop(tempbuf, packet_size, count, chunks, 0, << >>)

\* lines 266-282: the new cache goes into the result, whole or in part.
\* more = TRUE: the outer loop goes round again.
\* as consume, but a partial copy leaves the offset where it was
consume_no_advance(size, data, buf, off, length) ==
  IF (Len(data) + length) <= size THEN
    LET data2 == data \o PySlice(buf, off, off + length)
    IN  [more |-> Len(data2) # size, outcome |-> "ok", data |-> data2,
         off |-> off + length]
  ELSE
    LET part_size == Min(size - Len(data), Len(buf) - off)
    IN  [more |-> FALSE, outcome |-> "ok",
         data |-> data \o PySlice(buf, off, off + part_size),
         off |-> off]

\* as consume, but a whole copy advances the offset by the requested size
consume_advance_by_size(size, data, buf, off, length) ==
  IF (Len(data) + length) <= size THEN
    LET data2 == data \o PySlice(buf, off, off + length)
    IN  [more |-> Len(data2) # size, outcome |-> "ok", data |-> data2,
         off |-> off + size]
  ELSE
    LET part_size == Min(size - Len(data), Len(buf) - off)
    IN  IF part_size < 0
        THEN [more |-> FALSE, outcome |-> "AssertionError", data |-> data,
              off |-> off]
        ELSE [more |-> FALSE, outcome |-> "ok",
              data |-> data \o PySlice(buf, off, off + part_size),
              off |-> off + part_size]

consume(size, data, buf, off, length) ==
  IF (Len(data) + length) <= size THEN
    LET data2 == data \o PySlice(buf, off, off + length)
    IN  [more |-> Len(data2) # size, outcome |-> "ok", data |-> data2,
         off |-> off + length]
  ELSE
    LET part_size == Min(size - Len(data), Len(buf) - off)
    IN  IF part_size < 0
        THEN [more |-> FALSE, outcome |-> "AssertionError", data |-> data,
              off |-> off]
        ELSE [more |-> FALSE, outcome |-> "ok",
              data |-> data \o PySlice(buf, off, off + part_size),
              off |-> off + part_size]

\* as retry, but an empty bulk read is retried once after the budget is spent
retry_once_more(attempt) == attempt >= 0

\* as retry, but the budget is overdrawn by three bulk reads
retry_past_budget(attempt) == attempt > -3

\* lines 258-259: `if attempt > 0: continue`, attempt already decremented by
\* line 243
retry(attempt) == attempt > 0

\* as usb_read_loop, but a bulk read that brings bytes leaves the attempt
\* budget as it was
RECURSIVE usb_read_loop_keep_budget(_, _, _, _, _, _, _, _)
usb_read_loop_keep_budget(packet_size, size, data, buf, off, attempt, script, reads) ==
  LET k == Len(reads)
  IN
  IF k >= Len(script) THEN ReadResult("starved", data, buf, off, reads)
  ELSE
    LET r == script[k + 1]
        reads2 == Append(reads, r)
        attempt2 == attempt - 1
    IN
    IF r.err THEN ReadResult(ErrUsb, << >>, buf, off, reads2)
    ELSE IF Len(r.raw) > 0 THEN
      LET buf2 == dechunk(r.raw, packet_size)
          length == Len(buf2)
      IN
      IF length > 0 THEN
        LET c == consume(size, data, buf2, 0, length)
        IN
        IF c.outcome # "ok" THEN ReadResult(c.outcome, << >>, buf2, c.off, reads2)
        ELSE IF ~c.more THEN ReadResult("ok", c.data, buf2, c.off, reads2)
        ELSE IF Len(c.data) < size
          THEN usb_read_loop_keep_budget(packet_size, size, c.data, buf2, c.off,
                                         attempt, script, reads2)
          ELSE ReadResult(ErrInternal, << >>, buf2, c.off, reads2)
      ELSE
        \* the loop condition length > 0 fails: "Internal error"
        ReadResult(ErrInternal, << >>, buf2, 0, reads2)
    ELSE IF retry(attempt2) THEN
      usb_read_loop_keep_budget(packet_size, size, data, buf, off, attempt2, script, reads2)
    ELSE ReadResult("ok", data, << >>, 0, reads2)

\* lines 240-286: the loop, entered at `tempbuf = self._read()`
RECURSIVE usb_read_loop(_, _, _, _, _, _, _, _)
usb_read_loop(packet_size, size, data, buf, off, attempt, script, reads) ==
  LET k == Len(reads)
  IN
  IF k >= Len(script) THEN ReadResult("starved", data, buf, off, reads)
  ELSE
    LET r == script[k + 1]
        reads2 == Append(reads, r)
        attempt2 == attempt - 1
    IN
    IF r.err THEN ReadResult(ErrUsb, << >>, buf, off, reads2)
    ELSE IF Len(r.raw) > 0 THEN
      LET buf2 == dechunk(r.raw, packet_size)
          length == Len(buf2)
      IN
      IF length > 0 THEN
        LET c == consume(size, data, buf2, 0, length)
        IN
        IF c.outcome # "ok" THEN ReadResult(c.outcome, << >>, buf2, c.off, reads2)
        ELSE IF ~c.more THEN ReadResult("ok", c.data, buf2, c.off, reads2)
        ELSE IF Len(c.data) < size
          THEN usb_read_loop(packet_size, size, c.data, buf2, c.off,
                             attempt2, script, reads2)
          ELSE ReadResult(ErrInternal, << >>, buf2, c.off, reads2)
      ELSE
        \* the loop condition length > 0 fails: "Internal error"
        ReadResult(ErrInternal, << >>, buf2, 0, reads2)
    ELSE IF retry(attempt2) THEN
      usb_read_loop(packet_size, size, data, buf, off, attempt2, script, reads2)
    ELSE ReadResult("ok", data, << >>, 0, reads2)

\* as read_data_bytes, but the cache serves a request only when it holds
\* more than `size` bytes
read_data_bytes_strict(isopen, packet_size, buf, off, size, attempt, script) ==
  IF ~isopen THEN ReadResult("AttributeError", << >>, buf, off, << >>)
  ELSE IF packet_size = 0 THEN ReadResult(ErrBogus, << >>, buf, off, << >>)
  ELSE IF size < Len(buf) - off THEN
    ReadResult("ok", PySlice(buf, off, off + size), buf, off + size, << >>)
  ELSE
    LET drained == Len(buf) - off # 0
        data == IF drained THEN PyTail(buf, off) ELSE << >>
        off2 == IF drained THEN Len(buf) ELSE off
    IN  usb_read_loop(packet_size, size, data, buf, off2, attempt, script, << >>)

\* as read_data_bytes, but draining the cache leaves the offset where it was
read_data_bytes_keep_offset(isopen, packet_size, buf, off, size, attempt, script) ==
  IF ~isopen THEN ReadResult("AttributeError", << >>, buf, off, << >>)
  ELSE IF packet_size = 0 THEN ReadResult(ErrBogus, << >>, buf, off, << >>)
  ELSE IF size <= Len(buf) - off THEN
    ReadResult("ok", PySlice(buf, off, off + size), buf, off + size, << >>)
  ELSE
    LET drained == Len(buf) - off # 0
        data == IF drained THEN PyTail(buf, off) ELSE << >>
    IN  usb_read_loop(packet_size, size, data, buf, off, attempt, script, << >>)

read_data_bytes(isopen, packet_size, buf, off, size, attempt, script) ==
  IF ~isopen THEN ReadResult("AttributeError", << >>, buf, off, << >>)
  ELSE IF packet_size = 0 THEN ReadResult(ErrBogus, << >>, buf, off, << >>)
  ELSE IF size <= Len(buf) - off THEN
    ReadResult("ok", PySlice(buf, off, off + size), buf, off + size, << >>)
  ELSE
    LET drained == Len(buf) - off # 0
        data == IF drained THEN PyTail(buf, off) ELSE << >>
        off2 == IF drained THEN Len(buf) ELSE off
    IN  usb_read_loop(packet_size, size, data, buf, off2, attempt, script, << >>)

\* JLink.read_data: the default attempt budget; tostring keeps the bytes
read_data(isopen, packet_size, buf, off, size, script) ==
  read_data_bytes(isopen, packet_size, buf, off, size, 1, script)

\* the bytes the bulk reads of a call delivered, in order
RECURSIVE Delivered(_)
Delivered(reads) ==
  IF reads = << >> THEN << >>
  ELSE (IF Head(reads).err THEN << >> ELSE Head(reads).raw)
       \o Delivered(Tail(reads))

HasUsbError(evs) == \E i \in 1..Len(evs) : evs[i].err


(***************************************************************************)
(* The adapter, family A.  It answers the command bytes it accepts, in     *)
(* order, and hands its answer out in bulk reads of any size.              *)
(***************************************************************************)
\* capability masks the adapter may report: the three gated bits alone,
\* together, absent among all others, and all 32 bits
DevCapsSet == { U32(0, 0), U32(0, 2), U32(0, 16), U32(0, 2048), U32(0, 2066),
                U32(65535, 63469), U32(65535, 65535) }
\* the packed hardware version and the block size the adapter reports
DevHwVersion == U32(245, 34487)
DevMaxMemBlock == U32(0, 513)
\* wMaxPacketSize values of the endpoint descriptor (0: a bogus descriptor)
MpsSet == { 0, 2, 3 }
\* the mask of the adapter the transport is exercised with (bytes 18 2 3 4)
TransportDevCaps == U32(1027, 530)
\* writebuffer_chunksize as __init__ sets it, 4 << 10
WRITE_CHUNKSIZE == 4096
\* wMaxPacketSize of a full-speed bulk endpoint
FULL_SPEED_MPS == 64

\* the firmware version blob: "J", two nulls, "V"
DevVersionBlob == << 74, 0, 0, 86 >>

\* struct.pack('<H', n), as the adapter does it
pack_u16(n) == << n % 256, n \div 256 >>

dev_reply(b, dcaps) ==
  CASE b = EMU_CMD_GET_CAPS -> pack_u32(dcaps)
    [] b = EMU_CMD_VERSION -> pack_u16(Len(DevVersionBlob)) \o DevVersionBlob
    [] b = EMU_CMD_GET_HW_VERSION -> pack_u32(DevHwVersion)
    [] b = EMU_CMD_GET_MAX_MEM_BLOCK -> pack_u32(DevMaxMemBlock)
    [] b = EMU_CMD_READ_CONFIG -> [i \in 1..DevConfigLen |-> 160 + i]
    [] OTHER -> << >>

RECURSIVE dev_replies(_, _)
dev_replies(bytes, dcaps) ==
  IF bytes = << >> THEN << >>
  ELSE dev_reply(Head(bytes), dcaps) \o dev_replies(Tail(bytes), dcaps)

\* what one bulk write of `chunk` may answer
BulkWriteResponses(chunk) ==
  { [err |-> TRUE, ret |-> 0] }
    \cup { [err |-> FALSE, ret |-> n] : n \in (-1)..Len(chunk) }

\* what one bulk read may answer when the device holds `pend`
BulkReadResponses(pend) ==
  { [err |-> TRUE, raw |-> << >>] }
    \cup { [err |-> FALSE, raw |-> SubSeq(pend, 1, n)] : n \in 0..Len(pend) }

\* every script that carries write_data(data) to its end
RECURSIVE WriteScripts(_, _, _, _)
WriteScripts(isopen, chunksize, data, prefix) ==
  LET res == write_data(isopen, chunksize, data, prefix)
  IN
  IF res.outcome # "starved" THEN { prefix }
  ELSE
    LET offset == Len(OnWire(res.writes))
        chunk == PySlice(data, offset, offset + chunksize)
    IN  UNION { WriteScripts(isopen, chunksize, data, Append(prefix, r)) :
                  r \in BulkWriteResponses(chunk) }

\* every script that carries read_data_bytes(size, attempt) to its end
RECURSIVE ReadScripts(_, _, _, _, _, _, _, _)
ReadScripts(isopen, packet_size, buf, off, size, attempt, pend, prefix) ==
  LET res == read_data_bytes(isopen, packet_size, buf, off, size, attempt, prefix)
  IN
  IF res.outcome # "starved" THEN { prefix }
  ELSE
    LET left == PyTail(pend, Len(Delivered(prefix)))
    IN  UNION { ReadScripts(isopen, packet_size, buf, off, size, attempt,
                            pend, Append(prefix, r)) :
                  r \in BulkReadResponses(left) }

(***************************************************************************)
(* Observation of a call.                                                  *)
(***************************************************************************)
NoCall ==
  [op |-> "none", payload |-> << >>, size |-> 0, attempt |-> 0,
   pre_buf |-> << >>, pre_off |-> 0, pre_opened |-> FALSE,
   pre_caps_known |-> FALSE, pre_caps |-> U32(0, 0), chunksize |-> 0,
   outcome |-> "ok", data |-> << >>, value |-> U32(0, 0),
   writes |-> << >>, reads |-> << >>]

Call(op, payload, size, attempt, outcome, data, value, writes, reads) ==
  [op |-> op, payload |-> payload, size |-> size, attempt |-> attempt,
   pre_buf |-> readbuffer, pre_off |-> readoffset, pre_opened |-> opened,
   pre_caps_known |-> caps_known, pre_caps |-> caps,
   chunksize |-> writebuffer_chunksize,
   outcome |-> outcome, data |-> data, value |-> value,
   writes |-> writes, reads |-> reads]

\* a call is made from "idle" and leaves its observation
Returns(call) ==
  /\ pc = "idle"
  /\ pc' = "returned"
  /\ last' = call

\* the caller has its result: the observation is dropped
Return ==
  /\ pc = "returned"
  /\ pc' = "idle"
  /\ last' = NoCall
  /\ UNCHANGED << stvars, hwvars >> /\ UNCHANGED << opened, max_packet_size, readbuffer, readoffset,
                  writebuffer_chunksize, caps_known, caps, dev_caps, dev_mps, dev_out,
                  received, returned, usb_error_seen >>

\* the histories after a logical read that delivered `reads` and returned
\* `data`; they stop at the first USB error of a bulk read
Histories(reads, data) ==
  IF usb_error_seen \/ HasUsbError(reads)
  THEN /\ usb_error_seen' = TRUE
       /\ received' = << >>
       /\ returned' = << >>
  ELSE LET rec == received \o Delivered(reads)
           ret == returned \o data
           n == CommonPrefixLen(rec, ret)
       IN  /\ usb_error_seen' = FALSE
           /\ received' = PyTail(rec, n)
           /\ returned' = PyTail(ret, n)

(***************************************************************************)
(* The hardware version (lines 342-349 of __str__).  The adapter packs     *)
(* its type, major, minor and revision into one number; __str__ takes      *)
(* them apart again.  hw_version / n is the floor division of integers.    *)
(* The type is looked up in the table JLink.hw_type (line 346) before the  *)
(* other three are computed: a type the table does not hold raises         *)
(* KeyError there.                                                         *)
(***************************************************************************)
HW_TYPE_JLINK == 0
HW_TYPE_JTRACE == 1
HW_TYPE_FLASHER == 2
HW_TYPE_JLINK_PRO == 3
HW_TYPE_JLINK_LITE_ADI == 5
HW_TYPE_JLINK_LITE_XMC4000 == 16
HW_TYPE_JLINK_LITE_XMC4200 == 17
HW_TYPE_LPCLINK2 == 18

\* the keys of JLink.hw_type
hw_type ==
  { HW_TYPE_JLINK, HW_TYPE_JTRACE, HW_TYPE_FLASHER, HW_TYPE_JLINK_PRO,
    HW_TYPE_JLINK_LITE_ADI, HW_TYPE_JLINK_LITE_XMC4000,
    HW_TYPE_JLINK_LITE_XMC4200, HW_TYPE_LPCLINK2 }

HwVersion(type, major, minor, revision) ==
  [type |-> type, major |-> major, minor |-> minor, revision |-> revision]

\* what lines 345-349 made of a hardware version: how they ended and the
\* numbers they computed (-1: not computed)
HwDecoded(outcome, type, major, minor, revision) ==
  [outcome |-> outcome, type |-> type, major |-> major, minor |-> minor,
   revision |-> revision]

\* nothing decoded yet
NoDecode == HwDecoded("none", -1, -1, -1, -1)

\* the packed number the adapter reports
hw_pack(hw) ==
  (hw.type * 1000000) + (hw.major * 10000) + (hw.minor * 100) + hw.revision

\* lines 345-349
hw_decode(hw_version) ==
  LET type == (hw_version \div 1000000) % 100
  IN  IF type \notin hw_type
      THEN HwDecoded("KeyError", type, -1, -1, -1)
      ELSE HwDecoded("ok", type,
                     (hw_version \div 10000) % 100,
                     (hw_version \div 100) % 100,
                     hw_version % 100)

\* the components of DevHwVersion, 16090807
DevHw == HwVersion(16, 9, 8, 7)

\* no hardware version line has been formatted
HwIdle ==
  /\ dev_hw = DevHw
  /\ hw_decoded = NoDecode

(***************************************************************************)
(* Initial state: JLink.__init__ (lines 172-184) and an adapter.           *)
(***************************************************************************)
Constructed ==
  /\ HwIdle
  /\ opened = FALSE
  /\ max_packet_size = 0
  /\ readbuffer = << >>
  /\ readoffset = 0
  /\ caps_known = FALSE
  /\ caps = U32(0, 0)
  /\ dev_out = << >>
  /\ pc = "idle"
  /\ last = NoCall
  /\ received = << >>
  /\ returned = << >>
  /\ usb_error_seen = FALSE

\* no stlink object
NoStlink ==
  /\ st_pc = "none"
  /\ api = "unset"
  /\ wrappers = FALSE
  /\ trace = << >>
  /\ dev_mode = "none"
  /\ dev_version = << >>

\* the transport on its own: any chunk size, any descriptor
Init ==
  /\ Constructed
  /\ NoStlink
  /\ writebuffer_chunksize \in 1..MaxChunk
  /\ dev_caps = TransportDevCaps
  /\ dev_mps \in MpsSet

\* the command set: the chunk size of the source, a full-speed endpoint
InitJLink ==
  /\ Constructed
  /\ NoStlink
  /\ writebuffer_chunksize = WRITE_CHUNKSIZE
  /\ dev_caps \in DevCapsSet
  /\ dev_mps = FULL_SPEED_MPS

(***************************************************************************)
(* Direct calls of the transport.                                          *)
(***************************************************************************)
\* a call that writes `data` is explored when the adapter, answering all of
\* it, would hold at most `most` unread bytes; every way the call can then
\* go is followed
Room(data, most) ==
  Len(dev_out) + Len(dev_replies(data, dev_caps)) <= most

PayloadBytes == { EMU_CMD_GET_CAPS, EMU_CMD_RESET_TRST }
Payloads == SeqsUpTo(PayloadBytes, MaxPayload)

\* as WriteDataCall, but write_data empties the read cache before it writes
WriteDataCallPurging ==
  pc = "idle" /\
  \E data \in { p \in Payloads : Room(p, MaxPending) } :
    \E script \in WriteScripts(opened, writebuffer_chunksize, data, << >>) :
      LET res == write_data(opened, writebuffer_chunksize, data, script)
          out == dev_out \o dev_replies(OnWire(res.writes), dev_caps)
      IN  /\ dev_out' = out
          /\ readbuffer' = << >>
          /\ readoffset' = 0
          /\ Returns(Call("write_data", data, 0, 0, res.outcome, << >>,
                          U32(0, res.value), res.writes, << >>))
          /\ UNCHANGED << stvars, hwvars >>
          /\ UNCHANGED << opened, max_packet_size, writebuffer_chunksize,
                          caps_known, caps, dev_caps, dev_mps, received,
                          returned, usb_error_seen >>

WriteDataCall ==
  pc = "idle" /\
  \E data \in { p \in Payloads : Room(p, MaxPending) } :
    \E script \in WriteScripts(opened, writebuffer_chunksize, data, << >>) :
      LET res == write_data(opened, writebuffer_chunksize, data, script)
          out == dev_out \o dev_replies(OnWire(res.writes), dev_caps)
      IN  /\ dev_out' = out
          /\ Returns(Call("write_data", data, 0, 0, res.outcome, << >>,
                          U32(0, res.value), res.writes, << >>))
          /\ UNCHANGED << stvars, hwvars >> /\ UNCHANGED << opened, max_packet_size, readbuffer, readoffset,
                          writebuffer_chunksize, caps_known, caps, dev_caps, dev_mps,
                          received, returned, usb_error_seen >>

ReadDataBytesCall ==
  pc = "idle" /\
  \E size \in 0..MaxSize, attempt \in 0..MaxAttempt :
    \E script \in ReadScripts(opened, max_packet_size, readbuffer, readoffset,
                              size, attempt, dev_out, << >>) :
      LET res == read_data_bytes(opened, max_packet_size, readbuffer,
                                 readoffset, size, attempt, script)
      IN  /\ readbuffer' = res.readbuffer
          /\ readoffset' = res.readoffset
          /\ dev_out' = PyTail(dev_out, Len(Delivered(res.reads)))
          /\ Returns(Call("read_data_bytes", << >>, size, attempt, res.outcome,
                          res.data, U32(0, 0), << >>, res.reads))
          /\ Histories(res.reads, res.data)
          /\ UNCHANGED << stvars, hwvars >> /\ UNCHANGED << opened, max_packet_size, writebuffer_chunksize,
                          caps_known, caps, dev_caps, dev_mps >>


(***************************************************************************)
(* A command: write_data(cmd), then read_data(size) (lines 302-303,        *)
(* 309-310, 316-317, 323-324).  The set of all ways it can go, the         *)
(* adapter's answer included.                                              *)
(***************************************************************************)
CommandResult(outcome, data, buf, off, writes, reads, pend) ==
  [outcome |-> outcome, data |-> data, readbuffer |-> buf, readoffset |-> off,
   writes |-> writes, reads |-> reads, dev_out |-> pend]

command(isopen, packet_size, buf, off, chunksize, pend, dcaps, cmd, size) ==
  UNION {
    LET w == write_data(isopen, chunksize, cmd, ws)
        pend2 == pend \o dev_replies(OnWire(w.writes), dcaps)
    IN
    IF w.outcome # "ok"
    THEN { CommandResult(w.outcome, << >>, buf, off, w.writes, << >>, pend2) }
    ELSE { LET r == read_data(isopen, packet_size, buf, off, size, rs)
           IN  CommandResult(r.outcome, r.data, r.readbuffer, r.readoffset,
                             w.writes, r.reads,
                             PyTail(pend2, Len(Delivered(r.reads)))) :
             rs \in ReadScripts(isopen, packet_size, buf, off, size, 1,
                                pend2, << >>) } :
    ws \in WriteScripts(isopen, chunksize, cmd, << >>) }

\* struct.unpack('<I', x)[0] raises struct.error unless x holds 4 bytes
unpack_outcome(c) ==
  IF c.outcome = "ok" /\ Len(c.data) # 4 THEN "struct.error" ELSE c.outcome

unpack_value(c) ==
  IF c.outcome = "ok" /\ Len(c.data) = 4 THEN unpack_u32(c.data) ELSE U32(0, 0)

\* the part of a command's effect every caller shares
Commanded(c) ==
  /\ readbuffer' = c.readbuffer
  /\ readoffset' = c.readoffset
  /\ dev_out' = c.dev_out
  /\ Histories(c.reads, c.data)

(***************************************************************************)
(* JLink.open (lines 188-197): the device and its interface are found,     *)
(* max_packet_size is read from the endpoint descriptor, then the          *)
(* capabilities are queried.  get_capabilities is lines 300-303.           *)
(***************************************************************************)
get_capabilities(isopen, packet_size, buf, off, chunksize, pend, dcaps) ==
  command(isopen, packet_size, buf, off, chunksize, pend, dcaps,
          << EMU_CMD_GET_CAPS >>, 4)

OpenCall ==
  pc = "idle" /\ Room(<< EMU_CMD_GET_CAPS >>, MaxPending) /\
  LET mps == dev_mps IN
    \E c \in get_capabilities(TRUE, mps, readbuffer, readoffset,
                              writebuffer_chunksize, dev_out, dev_caps) :
      /\ Commanded(c)
      /\ opened' = TRUE
      /\ max_packet_size' = mps
      /\ caps_known' = (caps_known \/ unpack_outcome(c) = "ok")
      /\ caps' = IF unpack_outcome(c) = "ok" THEN unpack_value(c) ELSE caps
      /\ Returns(Call("open", << EMU_CMD_GET_CAPS >>, 4, 1, unpack_outcome(c),
                      c.data, unpack_value(c), c.writes, c.reads))
      /\ UNCHANGED << stvars, hwvars >> /\ UNCHANGED << writebuffer_chunksize, dev_caps, dev_mps >>

GetCapabilitiesCall ==
  pc = "idle" /\ Room(<< EMU_CMD_GET_CAPS >>, MaxPending) /\
  \E c \in get_capabilities(opened, max_packet_size, readbuffer, readoffset,
                            writebuffer_chunksize, dev_out, dev_caps) :
    /\ Commanded(c)
    /\ Returns(Call("get_capabilities", << EMU_CMD_GET_CAPS >>, 4, 1,
                    unpack_outcome(c), c.data, unpack_value(c),
                    c.writes, c.reads))
    /\ UNCHANGED << stvars, hwvars >> /\ UNCHANGED << opened, max_packet_size, writebuffer_chunksize,
                    caps_known, caps, dev_caps, dev_mps >>

(***************************************************************************)
(* JLink.get_version (lines 292-298): the version command, a 2-byte        *)
(* length, the blob of that length, split on nulls.                        *)
(***************************************************************************)
\* x.split('\x00'): the fragments between the nulls, empty ones included
RECURSIVE py_split(_, _)
py_split(x, cur) ==
  IF x = << >> THEN << cur >>
  ELSE IF Head(x) = 0 THEN << cur >> \o py_split(Tail(x), << >>)
  ELSE py_split(Tail(x), Append(cur, Head(x)))

NonEmptyFragment(f) == Len(f) > 0

\* as line 298 without its filter
fragments_unfiltered(x) == py_split(x, << >>)

\* [s for s in x.split('\x00') if len(s)]
fragments(x) == SelectSeq(py_split(x, << >>), NonEmptyFragment)

\* struct.unpack('<H', x): struct.error unless x holds 2 bytes
unpack_u16(x) == x[1] + (256 * x[2])

VersionResult(outcome, n, value, buf, off, writes, reads1, reads2, prefix, data, pend) ==
  [outcome |-> outcome, n |-> n, value |-> value, readbuffer |-> buf,
   readoffset |-> off, writes |-> writes, reads1 |-> reads1,
   reads2 |-> reads2, reads |-> reads1 \o reads2, prefix |-> prefix,
   data |-> data, dev_out |-> pend]

\* line 296-298, once the length has been read
jlink_get_version_blob(isopen, packet_size, r1, w, pend) ==
  LET n == unpack_u16(r1.data)
      pend1 == PyTail(pend, Len(Delivered(r1.reads)))
  IN  { LET r2 == read_data(isopen, packet_size, r1.readbuffer,
                            r1.readoffset, n, rs)
        IN  VersionResult(r2.outcome, n,
                          IF r2.outcome = "ok" THEN fragments(r2.data)
                          ELSE << >>,
                          r2.readbuffer, r2.readoffset, w.writes, r1.reads,
                          r2.reads, r1.data, r2.data,
                          PyTail(pend1, Len(Delivered(r2.reads)))) :
          rs \in ReadScripts(isopen, packet_size, r1.readbuffer,
                             r1.readoffset, n, 1, pend1, << >>) }

jlink_get_version(isopen, packet_size, buf, off, chunksize, pend, dcaps) ==
  UNION {
    LET w == write_data(isopen, chunksize, << EMU_CMD_VERSION >>, ws)
        pend2 == pend \o dev_replies(OnWire(w.writes), dcaps)
    IN
    IF w.outcome # "ok"
    THEN { VersionResult(w.outcome, 0, << >>, buf, off, w.writes, << >>,
                         << >>, << >>, << >>, pend2) }
    ELSE UNION {
           LET r1 == read_data(isopen, packet_size, buf, off, 2, rs)
               pend1 == PyTail(pend2, Len(Delivered(r1.reads)))
           IN
           IF r1.outcome # "ok"
           THEN { VersionResult(r1.outcome, 0, << >>, r1.readbuffer,
                                r1.readoffset, w.writes, r1.reads, << >>,
                                r1.data, << >>, pend1) }
           ELSE IF Len(r1.data) # 2
           THEN { VersionResult("struct.error", 0, << >>, r1.readbuffer,
                                r1.readoffset, w.writes, r1.reads, << >>,
                                r1.data, << >>, pend1) }
           ELSE jlink_get_version_blob(isopen, packet_size, r1, w, pend2) :
           rs \in ReadScripts(isopen, packet_size, buf, off, 2, 1, pend2,
                              << >>) } :
    ws \in WriteScripts(isopen, chunksize, << EMU_CMD_VERSION >>, << >>) }

JLinkGetVersionCall ==
  pc = "idle" /\ Room(<< EMU_CMD_VERSION >>, MaxPendingVersion) /\
  \E v \in jlink_get_version(opened, max_packet_size, readbuffer, readoffset,
                             writebuffer_chunksize, dev_out, dev_caps) :
    /\ readbuffer' = v.readbuffer
    /\ readoffset' = v.readoffset
    /\ dev_out' = v.dev_out
    /\ Histories(v.reads, v.prefix \o v.data)
    /\ Returns(Call("get_version", << EMU_CMD_VERSION >>, 2, 1, v.outcome,
                    v.data, U32(0, 0), v.writes, v.reads)
                 @@ [n |-> v.n, fragments |-> v.value, reads1 |-> v.reads1,
                     reads2 |-> v.reads2])
    /\ UNCHANGED << stvars, hwvars >>
    /\ UNCHANGED << opened, max_packet_size, writebuffer_chunksize,
                    caps_known, caps, dev_caps, dev_mps >>

(***************************************************************************)
(* The capability-gated commands (lines 305-324).                          *)
(***************************************************************************)
\* not (self.caps & (1 << bit)); self.caps is unassigned until open
\* as cap_check, but the mask is tested against the bit number itself
cap_check_bit_number(known, c, bit) ==
  IF ~known THEN "AttributeError"
  ELSE IF ~Truthy(BitAnd(c, U32(0, bit))) THEN ErrUnsupported
  ELSE "ok"

cap_check(known, c, bit) ==
  IF ~known THEN "AttributeError"
  ELSE IF ~Truthy(BitAnd(c, Shl1(bit))) THEN ErrUnsupported
  ELSE "ok"

gated(bit, cmd, size) ==
  LET chk == cap_check(caps_known, caps, bit)
  IN
  IF chk # "ok"
  THEN { CommandResult(chk, << >>, readbuffer, readoffset, << >>, << >>,
                       dev_out) }
  ELSE command(opened, max_packet_size, readbuffer, readoffset,
               writebuffer_chunksize, dev_out, dev_caps, cmd, size)

get_hw_version ==
  gated(EMU_CAP_GET_HW_VERSION, << EMU_CMD_GET_HW_VERSION >>, 4)

get_max_mem_block ==
  gated(EMU_CAP_GET_MAX_BLOCK_SIZE, << EMU_CMD_GET_MAX_MEM_BLOCK >>, 4)

get_config ==
  gated(EMU_CAP_READ_CONFIG, << EMU_CMD_READ_CONFIG >>, CONFIG_SIZE)

GetHwVersionCall ==
  pc = "idle" /\ Room(<< EMU_CMD_GET_HW_VERSION >>, MaxPending) /\
  \E c \in get_hw_version :
    /\ Commanded(c)
    /\ Returns(Call("get_hw_version", << EMU_CMD_GET_HW_VERSION >>, 4, 1,
                    unpack_outcome(c), c.data, unpack_value(c),
                    c.writes, c.reads))
    /\ UNCHANGED << stvars, hwvars >> /\ UNCHANGED << opened, max_packet_size, writebuffer_chunksize,
                    caps_known, caps, dev_caps, dev_mps >>

GetMaxMemBlockCall ==
  pc = "idle" /\ Room(<< EMU_CMD_GET_MAX_MEM_BLOCK >>, MaxPending) /\
  \E c \in get_max_mem_block :
    /\ Commanded(c)
    /\ Returns(Call("get_max_mem_block", << EMU_CMD_GET_MAX_MEM_BLOCK >>, 4, 1,
                    unpack_outcome(c), c.data, unpack_value(c),
                    c.writes, c.reads))
    /\ UNCHANGED << stvars, hwvars >> /\ UNCHANGED << opened, max_packet_size, writebuffer_chunksize,
                    caps_known, caps, dev_caps, dev_mps >>

GetConfigCall ==
  pc = "idle" /\ Room(<< EMU_CMD_READ_CONFIG >>, MaxPending) /\
  \E c \in get_config :
    /\ Commanded(c)
    /\ Returns(Call("get_config", << EMU_CMD_READ_CONFIG >>, CONFIG_SIZE, 1,
                    c.outcome, c.data, U32(0, 0), c.writes, c.reads))
    /\ UNCHANGED << stvars, hwvars >> /\ UNCHANGED << opened, max_packet_size, writebuffer_chunksize,
                    caps_known, caps, dev_caps, dev_mps >>

Next ==
  \/ OpenCall
  \/ WriteDataCall
  \/ ReadDataBytesCall
  \/ Return

Spec == Init /\ [][Next]_vars

NextJLink ==
  \/ OpenCall
  \/ GetCapabilitiesCall
  \/ GetHwVersionCall
  \/ GetMaxMemBlockCall
  \/ GetConfigCall
  \/ Return

SpecJLink == InitJLink /\ [][NextJLink]_vars

\* the firmware version query, on an object that may or may not be open;
\* the capability mask plays no part in it
InitJLinkVersion ==
  /\ Constructed
  /\ NoStlink
  /\ writebuffer_chunksize = WRITE_CHUNKSIZE
  /\ dev_caps = TransportDevCaps
  /\ dev_mps = FULL_SPEED_MPS

NextJLinkVersion ==
  \/ OpenCall
  \/ JLinkGetVersionCall
  \/ Return

SpecJLinkVersion == InitJLinkVersion /\ [][NextJLinkVersion]_vars

(***************************************************************************)
(* Family B: the ST-Link driver (src/stlink.py).                           *)
(*                                                                         *)
(* self.usb is a usbdev object: its module is not part of the source, and  *)
(* it is taken to be the byte transport above, opened on a full-speed      *)
(* endpoint (write_data, read_data as in src/jlink.py).                    *)
(***************************************************************************)
STLINK_GET_VERSION == 241
STLINK_DEBUG_COMMAND == 242
STLINK_DFU_COMMAND == 243
STLINK_SWIM_COMMAND == 244
STLINK_GET_CURRENT_MODE == 245
STLINK_GET_TARGET_VOLTAGE == 247
STLINK_DEBUG_READCOREID == 34
STLINK_DEBUG_GETSTATUS == 1
STLINK_DEBUG_FORCEDEBUG == 2
STLINK_DEBUG_APIV1_READREG == 5
STLINK_DEBUG_RUNCORE == 9
STLINK_DEBUG_APIV1_ENTER == 32
STLINK_DEBUG_EXIT == 33
STLINK_DEBUG_APIV2_ENTER == 48
STLINK_DEBUG_ENTER_JTAG == 0
STLINK_DEBUG_ENTER_SWD == 163
STLINK_DFU_EXIT == 7
STLINK_SWIM_ENTER == 0
STLINK_SWIM_EXIT == 1
STLINK_MAX_RW8 == 64

\* the most unread bytes the adapter may hold when a call of the ST-Link
\* driver is made (exploration stops beyond it), and the largest size a
\* direct send_recv asks for
MaxPendingSt == 1
MaxStSize == 2

\* the table of get_current_mode (line 198); None for any other byte
mode_of_byte(b) ==
  CASE b = 0 -> "dfu"
    [] b = 1 -> "mass"
    [] b = 2 -> "debug"
    [] b = 3 -> "swim"
    [] b = 4 -> "bootloader"
    [] OTHER -> "None"

(***************************************************************************)
(* The adapter, family B.  It acts on a command frame once the frame has   *)
(* arrived whole; a mode change it is asked for it may honour or ignore.   *)
(***************************************************************************)
DevModes == { "dfu", "mass", "debug", "swim", "bootloader", "other" }

\* the byte the adapter reports for its mode (9: a byte outside the table)
dev_mode_byte(m) ==
  CASE m = "dfu" -> 0
    [] m = "mass" -> 1
    [] m = "debug" -> 2
    [] m = "swim" -> 3
    [] m = "bootloader" -> 4
    [] OTHER -> 9

\* GET_VERSION answers: (stlink_v 2, jtag_v 11), (2, 10), (1, 11); each
\* with VID 0x0483 and PID 0x3748
DevVersions == { << 34, 192, 131, 4, 72, 55 >>,
                 << 34, 128, 131, 4, 72, 55 >>,
                 << 18, 192, 131, 4, 72, 55 >> }

DevStep(mode, reply) == [mode |-> mode, reply |-> reply]

\* the value the adapter reports for a register
DevRegValue == U32(8192, 1025)

\* the core id the adapter reports (0x1BA01477), and the two readings of
\* its voltage answer: factor 1489, reading 2045
DevCoreId == U32(7072, 5239)
DevVoltage == pack_u32(U32(0, 1489)) \o pack_u32(U32(0, 2045))

IsEnterDebug(frame) ==
  /\ Len(frame) = 3
  /\ frame[1] = STLINK_DEBUG_COMMAND
  /\ frame[2] \in { STLINK_DEBUG_APIV1_ENTER, STLINK_DEBUG_APIV2_ENTER }
  /\ frame[3] \in { STLINK_DEBUG_ENTER_JTAG, STLINK_DEBUG_ENTER_SWD }

stlink_dev(frame, m, ver) ==
  CASE frame = << STLINK_GET_CURRENT_MODE >> ->
         { DevStep(m, << dev_mode_byte(m), 0 >>) }
    [] frame = << STLINK_GET_VERSION >> ->
         { DevStep(m, ver) }
    [] frame = << STLINK_DFU_COMMAND, STLINK_DFU_EXIT >> ->
         IF m = "dfu" THEN { DevStep("mass", << >>), DevStep("dfu", << >>) }
         ELSE { DevStep(m, << >>) }
    [] IsEnterDebug(frame) ->
         LET reply == IF frame[2] = STLINK_DEBUG_APIV2_ENTER
                      THEN << 128, 0 >> ELSE << >>
         IN  IF m = "dfu"
             THEN { DevStep("dfu", reply), DevStep("other", reply) }
             ELSE { DevStep("debug", reply), DevStep(m, reply) }
    [] frame = << STLINK_DEBUG_COMMAND, STLINK_DEBUG_EXIT >> ->
         IF m = "debug" THEN { DevStep("mass", << >>), DevStep("debug", << >>) }
         ELSE { DevStep(m, << >>) }
    [] frame = << STLINK_SWIM_COMMAND, STLINK_SWIM_ENTER >> ->
         IF m = "dfu" THEN { DevStep("dfu", << >>) }
         ELSE { DevStep("swim", << >>), DevStep(m, << >>) }
    [] frame = << STLINK_SWIM_COMMAND, STLINK_SWIM_EXIT >> ->
         IF m = "swim" THEN { DevStep("mass", << >>), DevStep("swim", << >>) }
         ELSE { DevStep(m, << >>) }
    [] frame = << STLINK_DEBUG_COMMAND, STLINK_DEBUG_GETSTATUS >> ->
         { DevStep(m, << 128, 0 >>), DevStep(m, << 129, 0 >>) }
    [] frame \in { << STLINK_DEBUG_COMMAND, STLINK_DEBUG_FORCEDEBUG >>,
                   << STLINK_DEBUG_COMMAND, STLINK_DEBUG_RUNCORE >> } ->
         { DevStep(m, << 128, 0 >>) }
    [] Len(frame) = 3 /\ frame[1] = STLINK_DEBUG_COMMAND
         /\ frame[2] = STLINK_DEBUG_APIV1_READREG ->
         { DevStep(m, pack_u32(DevRegValue)) }
    [] frame = << STLINK_GET_TARGET_VOLTAGE >> ->
         { DevStep(m, DevVoltage) }
    [] frame = << STLINK_DEBUG_COMMAND, STLINK_DEBUG_READCOREID >> ->
         { DevStep(m, pack_u32(DevCoreId)) }
    [] OTHER -> { DevStep(m, << >>) }

(***************************************************************************)
(* stlink.send_recv (lines 155-161): the set of all ways it can go.        *)
(* `none` tells the None of line 161 from a result of read_data.           *)
(***************************************************************************)
ExchangeResult(outcome, none, data, buf, off, writes, reads, io, pend, mode) ==
  [outcome |-> outcome, none |-> none, data |-> data,
   readbuffer |-> buf, readoffset |-> off,
   writes |-> writes, reads |-> reads, io |-> io, dev_out |-> pend,
   dev_mode |-> mode]

\* the bulk transfers `evs`, each tagged with its direction
Transfers(kind, evs) == [i \in 1..Len(evs) |-> kind]

\* line 160-161, once the frame is out and the adapter has acted
recv(packet_size, buf, off, size, writes, pend, mode) ==
  IF size > 0
  THEN { LET r == read_data(TRUE, packet_size, buf, off, size, rs)
         IN  ExchangeResult(r.outcome, FALSE, r.data, r.readbuffer,
                            r.readoffset, writes, r.reads,
                            Transfers("write", writes)
                              \o Transfers("read", r.reads),
                            PyTail(pend, Len(Delivered(r.reads))), mode) :
           rs \in ReadScripts(TRUE, packet_size, buf, off, size, 1, pend,
                              << >>) }
  ELSE { ExchangeResult("ok", TRUE, << >>, buf, off, writes, << >>,
                        Transfers("write", writes), pend, mode) }

\* as send_recv would be with its two statements swapped: the response is
\* read before the command is written
send_recv_read_first(packet_size, buf, off, chunksize, pend, mode, ver, data, size) ==
  UNION {
    IF r.outcome # "ok" \/ Len(data) = 0 THEN { r }
    ELSE UNION {
           LET w == write_data(TRUE, chunksize, data, ws) IN
           IF w.outcome # "ok"
           THEN { [r EXCEPT !.outcome = w.outcome, !.writes = w.writes,
                            !.io = r.io \o Transfers("write", w.writes)] }
           ELSE { [r EXCEPT !.writes = w.writes,
                            !.io = r.io \o Transfers("write", w.writes),
                            !.dev_out = r.dev_out \o d.reply,
                            !.dev_mode = d.mode] :
                    d \in stlink_dev(data, mode, ver) } :
           ws \in WriteScripts(TRUE, chunksize, data, << >>) } :
    r \in recv(packet_size, buf, off, size, << >>, pend, mode) }

send_recv(packet_size, buf, off, chunksize, pend, mode, ver, data, size) ==
  IF Len(data) > 0
  THEN UNION {
         LET w == write_data(TRUE, chunksize, data, ws) IN
         IF w.outcome # "ok"
         THEN { ExchangeResult(w.outcome, FALSE, << >>, buf, off, w.writes,
                               << >>, Transfers("write", w.writes), pend,
                               mode) }
         ELSE UNION { recv(packet_size, buf, off, size, w.writes,
                           pend \o d.reply, d.mode) :
                        d \in stlink_dev(data, mode, ver) } :
         ws \in WriteScripts(TRUE, chunksize, data, << >>) }
  ELSE recv(packet_size, buf, off, size, << >>, pend, mode)

\* the exchanges of the object in its current state
Exchange(data, size) ==
  send_recv(max_packet_size, readbuffer, readoffset, writebuffer_chunksize,
            dev_out, dev_mode, dev_version, data, size)

\* a call is explored while the adapter's unread bytes are few
WithinBacklog == Len(dev_out) <= MaxPendingSt

\* the effect of an exchange on the transport and the adapter
Exchanged(x) ==
  /\ readbuffer' = x.readbuffer
  /\ readoffset' = x.readoffset
  /\ dev_out' = x.dev_out
  /\ dev_mode' = x.dev_mode

\* a call that ends before any exchange
NoExchange(outcome) ==
  ExchangeResult(outcome, TRUE, << >>, readbuffer, readoffset, << >>, << >>,
                 << >>, dev_out, dev_mode)

(***************************************************************************)
(* stlink.get_current_mode (lines 195-198) over its exchange x: x[0] of    *)
(* an empty answer raises IndexError.                                      *)
(***************************************************************************)
get_current_mode_outcome(x) ==
  IF x.outcome = "ok" /\ Len(x.data) < 1 THEN "IndexError" ELSE x.outcome

get_current_mode_value(x) ==
  IF get_current_mode_outcome(x) = "ok" THEN mode_of_byte(x.data[1])
  ELSE "None"

get_current_mode == Exchange(<< STLINK_GET_CURRENT_MODE >>, 2)

(***************************************************************************)
(* stlink.get_version (lines 163-174) over its exchange x.                 *)
(***************************************************************************)
get_version_outcome(x) ==
  IF x.outcome = "ok" /\ Len(x.data) < 6 THEN "IndexError" ELSE x.outcome

get_version_value(x) ==
  IF get_version_outcome(x) = "ok"
  THEN [stlink_v |-> BitAnd16(x.data[1], 240, 8) \div 16,
        jtag_v |-> ((BitAnd16(x.data[1], 15, 8) * 4) % 256)
                     + (BitAnd16(x.data[2], 192, 8) \div 64),
        swim_v |-> BitAnd16(x.data[2], 63, 8),
        st_vid |-> (x.data[4] * 256) + x.data[3],
        stlink_pid |-> (x.data[6] * 256) + x.data[5]]
  ELSE [stlink_v |-> 0, jtag_v |-> 0, swim_v |-> 0, st_vid |-> 0,
        stlink_pid |-> 0]

\* line 173
api_of(ver) == IF ver.jtag_v >= 11 THEN "v2" ELSE "v1"

get_version == Exchange(<< STLINK_GET_VERSION >>, 6)

(***************************************************************************)
(* stlink.enter_mode (lines 200-211) and leave_mode (lines 213-222).       *)
(* enter_mode reads self.api first: AttributeError while it is unset.      *)
(***************************************************************************)
Frame(outcome, frame, nread) ==
  [outcome |-> outcome, frame |-> frame, nread |-> nread]

\* as enter_mode_frame, but the enter opcode of v1 is framed under both
\* revisions
enter_mode_frame_v1_opcode(apiv, mode) ==
  IF apiv = "unset" THEN Frame("AttributeError", << >>, 0)
  ELSE
    LET nread == IF apiv = "v2" THEN 2 ELSE 0
        enter == STLINK_DEBUG_APIV1_ENTER
    IN
    CASE mode = "jtag" ->
           Frame("ok",
                 << STLINK_DEBUG_COMMAND, enter, STLINK_DEBUG_ENTER_JTAG >>,
                 nread)
      [] mode = "swd" ->
           Frame("ok",
                 << STLINK_DEBUG_COMMAND, enter, STLINK_DEBUG_ENTER_SWD >>,
                 nread)
      [] mode = "swim" ->
           Frame("ok", << STLINK_SWIM_COMMAND, STLINK_SWIM_ENTER >>, nread)
      [] OTHER -> Frame("AssertionError", << >>, 0)

enter_mode_frame(apiv, mode) ==
  IF apiv = "unset" THEN Frame("AttributeError", << >>, 0)
  ELSE
    LET nread == IF apiv = "v2" THEN 2 ELSE 0
        enter == IF apiv = "v2" THEN STLINK_DEBUG_APIV2_ENTER
                 ELSE STLINK_DEBUG_APIV1_ENTER
    IN
    CASE mode = "jtag" ->
           Frame("ok",
                 << STLINK_DEBUG_COMMAND, enter, STLINK_DEBUG_ENTER_JTAG >>,
                 nread)
      [] mode = "swd" ->
           Frame("ok",
                 << STLINK_DEBUG_COMMAND, enter, STLINK_DEBUG_ENTER_SWD >>,
                 nread)
      [] mode = "swim" ->
           Frame("ok", << STLINK_SWIM_COMMAND, STLINK_SWIM_ENTER >>, nread)
      [] OTHER -> Frame("AssertionError", << >>, 0)

enter_mode(mode) ==
  LET f == enter_mode_frame(api, mode)
  IN  IF f.outcome # "ok" THEN { NoExchange(f.outcome) }
      ELSE Exchange(f.frame, f.nread)

leave_mode_frame(mode) ==
  CASE mode \in { "jtag", "swd" } ->
         Frame("ok", << STLINK_DEBUG_COMMAND, STLINK_DEBUG_EXIT >>, 0)
    [] mode = "swim" ->
         Frame("ok", << STLINK_SWIM_COMMAND, STLINK_SWIM_EXIT >>, 0)
    [] mode = "dfu" ->
         Frame("ok", << STLINK_DFU_COMMAND, STLINK_DFU_EXIT >>, 0)
    [] OTHER -> Frame("AssertionError", << >>, 0)

leave_mode(mode) ==
  LET f == leave_mode_frame(mode)
  IN  IF f.outcome # "ok" THEN { NoExchange(f.outcome) }
      ELSE Exchange(f.frame, f.nread)

(***************************************************************************)
(* exit_dfu_mode and enter_swd_mode are called by __init__ (lines 146,     *)
(* 148) and defined nowhere in the source: the call raises AttributeError. *)
(* Where a build supplies them (`wrappers`), they are the leaveMode(DFU)   *)
(* and enterMode(SWD) of the connection protocol.                          *)
(***************************************************************************)
exit_dfu_mode ==
  IF wrappers THEN leave_mode("dfu") ELSE { NoExchange("AttributeError") }

enter_swd_mode ==
  IF wrappers THEN enter_mode("swd") ELSE { NoExchange("AttributeError") }

(***************************************************************************)
(* stlink.__init__ (lines 137-150), statement by statement.  st_pc:        *)
(*   "start"      before line 145                                          *)
(*   "queried"    the condition of line 145 has its mode                   *)
(*   "left"       before line 147                                          *)
(*   "requeried"  the condition of line 147 has its mode                   *)
(*   "entered"    before line 149                                          *)
(*   "ready"      __init__ has returned; "failed": it has raised           *)
(* `trace` lists the calls made, with the frame that reached the adapter,  *)
(* the mode the adapter was in when the call began, and whether every      *)
(* bulk write of the call came before every bulk read of it.               *)
(***************************************************************************)
Step(op, x, outcome, value) ==
  [op |-> op, frame |-> OnWire(x.writes), dev_before |-> dev_mode,
   dev_after |-> x.dev_mode, outcome |-> outcome, value |-> value,
   write_first |-> \A i \in DOMAIN x.io : \A j \in DOMAIN x.io :
                     (x.io[i] = "read" /\ x.io[j] = "write") => j < i]

\* the mode the last get_current_mode returned
Reported == trace[Len(trace)].value

BringUpUnchanged ==
  UNCHANGED << opened, max_packet_size, writebuffer_chunksize, caps_known,
               caps, dev_caps, dev_mps, wrappers, dev_version, pc, last,
               received, returned, usb_error_seen, dev_hw, hw_decoded >>

\* the get_current_mode() of line 145 and of line 147
BringUpQueryMode ==
  /\ st_pc \in { "start", "left" }
  /\ \E x \in get_current_mode :
       /\ Exchanged(x)
       /\ trace' = Append(trace, Step("get_current_mode", x,
                                      get_current_mode_outcome(x),
                                      get_current_mode_value(x)))
       /\ st_pc' = IF get_current_mode_outcome(x) # "ok" THEN "failed"
                   ELSE IF st_pc = "start" THEN "queried" ELSE "requeried"
  /\ UNCHANGED api
  /\ BringUpUnchanged

\* lines 145-146: == 'dfu', then self.exit_dfu_mode()
BringUpExitDfu ==
  /\ st_pc = "queried"
  /\ IF Reported = "dfu"
     THEN \E x \in exit_dfu_mode :
            /\ Exchanged(x)
            /\ trace' = Append(trace, Step("exit_dfu_mode", x, x.outcome,
                                           "None"))
            /\ st_pc' = IF x.outcome = "ok" THEN "left" ELSE "failed"
     ELSE /\ st_pc' = "left"
          /\ UNCHANGED << readbuffer, readoffset, dev_out, dev_mode, trace >>
  /\ UNCHANGED api
  /\ BringUpUnchanged

\* lines 147-148: != 'debug', then self.enter_swd_mode()
BringUpEnterSwd ==
  /\ st_pc = "requeried"
  /\ IF Reported # "debug"
     THEN \E x \in enter_swd_mode :
            /\ Exchanged(x)
            /\ trace' = Append(trace, Step("enter_swd_mode", x, x.outcome,
                                           "None"))
            /\ st_pc' = IF x.outcome = "ok" THEN "entered" ELSE "failed"
     ELSE /\ st_pc' = "entered"
          /\ UNCHANGED << readbuffer, readoffset, dev_out, dev_mode, trace >>
  /\ UNCHANGED api
  /\ BringUpUnchanged

\* lines 149-150: ver = self.get_version(); assert ver['stlink_v'] == 2
BringUpGetVersion ==
  /\ st_pc = "entered"
  /\ \E x \in get_version :
       LET outcome == IF get_version_outcome(x) # "ok"
                      THEN get_version_outcome(x)
                      ELSE IF get_version_value(x).stlink_v # 2
                      THEN "AssertionError" ELSE "ok"
       IN
       /\ Exchanged(x)
       /\ api' = IF get_version_outcome(x) = "ok"
                 THEN api_of(get_version_value(x)) ELSE api
       /\ trace' = Append(trace, Step("get_version", x, outcome, "None"))
       /\ st_pc' = IF outcome = "ok" THEN "ready" ELSE "failed"
  /\ BringUpUnchanged

(***************************************************************************)
(* Calls on the object __init__ has returned.                              *)
(***************************************************************************)
StUnchanged ==
  UNCHANGED << opened, max_packet_size, writebuffer_chunksize, caps_known,
               caps, dev_caps, dev_mps, st_pc, wrappers, trace, dev_version,
               received, returned, usb_error_seen, dev_hw, hw_decoded >>

StFrames == { << >>, << STLINK_GET_CURRENT_MODE >> }

SendRecvCall ==
  /\ st_pc = "ready"
  /\ pc = "idle"
  /\ WithinBacklog
  /\ \E data \in StFrames, size \in 0..MaxStSize :
       \E x \in Exchange(data, size) :
         /\ Exchanged(x)
         /\ Returns(Call("send_recv", data, size, 1, x.outcome, x.data,
                         U32(0, 0), x.writes, x.reads)
                      @@ [io |-> x.io, none |-> x.none])
  /\ UNCHANGED api
  /\ StUnchanged

GetCurrentModeCall ==
  /\ st_pc = "ready"
  /\ pc = "idle"
  /\ WithinBacklog
  /\ \E x \in get_current_mode :
       /\ Exchanged(x)
       /\ Returns(Call("get_current_mode", << STLINK_GET_CURRENT_MODE >>, 2,
                       1, get_current_mode_outcome(x), x.data, U32(0, 0),
                       x.writes, x.reads))
  /\ UNCHANGED api
  /\ StUnchanged

EnterModes == { "jtag", "swd", "swim", "bad" }
LeaveModes == { "jtag", "swd", "swim", "dfu", "bad" }

EnterModeCall ==
  /\ st_pc = "ready"
  /\ pc = "idle"
  /\ WithinBacklog
  /\ \E mode \in EnterModes :
       \E x \in enter_mode(mode) :
         /\ Exchanged(x)
         /\ Returns(Call("enter_mode", enter_mode_frame(api, mode).frame,
                         enter_mode_frame(api, mode).nread, 1, x.outcome,
                         x.data, U32(0, 0), x.writes, x.reads)
                      @@ [mode |-> mode, none |-> x.none])
  /\ UNCHANGED api
  /\ StUnchanged

LeaveModeCall ==
  /\ st_pc = "ready"
  /\ pc = "idle"
  /\ WithinBacklog
  /\ \E mode \in LeaveModes :
       \E x \in leave_mode(mode) :
         /\ Exchanged(x)
         /\ Returns(Call("leave_mode", leave_mode_frame(mode).frame, 0, 1,
                         x.outcome, x.data, U32(0, 0), x.writes, x.reads))
  /\ UNCHANGED api
  /\ StUnchanged

(***************************************************************************)
(* The operations of API revision v1: get_status (lines 184-188), halt,    *)
(* run and read_reg (lines 231-247).  Each asserts self.api == 'v1'        *)
(* before it frames its command.                                           *)
(***************************************************************************)
\* as the assertion is with assert statements compiled out
api_check_no_assert(apiv) ==
  IF apiv = "unset" THEN "AttributeError" ELSE "ok"

\* assert self.api == 'v1', 'TODO for apiv2'
api_check(apiv) ==
  IF apiv = "unset" THEN "AttributeError"
  ELSE IF apiv # "v1" THEN "AssertionError"
  ELSE "ok"

v1_only(frame, size) ==
  LET c == api_check(api)
  IN  IF c # "ok" THEN { NoExchange(c) } ELSE Exchange(frame, size)

get_status_frame == << STLINK_DEBUG_COMMAND, STLINK_DEBUG_GETSTATUS >>
halt_frame == << STLINK_DEBUG_COMMAND, STLINK_DEBUG_FORCEDEBUG >>
run_frame == << STLINK_DEBUG_COMMAND, STLINK_DEBUG_RUNCORE >>
read_reg_frame(num) ==
  << STLINK_DEBUG_COMMAND, STLINK_DEBUG_APIV1_READREG, num >>

\* x[0] of line 188
get_status_outcome(x) ==
  IF x.outcome = "ok" /\ ~x.none /\ Len(x.data) < 1 THEN "IndexError"
  ELSE x.outcome

\* read_u32(x) of line 247
read_reg_outcome(x) ==
  IF x.outcome = "ok" /\ ~x.none /\ Len(x.data) # 4 THEN "struct.error"
  ELSE x.outcome

read_reg_value(x) ==
  IF read_reg_outcome(x) = "ok" /\ ~x.none THEN unpack_u32(x.data)
  ELSE U32(0, 0)

\* register numbers of regmap: r0 and pc
RegNums == { 0, 15 }

GetStatusCall ==
  /\ st_pc = "ready"
  /\ pc = "idle"
  /\ WithinBacklog
  /\ \E x \in v1_only(get_status_frame, 2) :
       /\ Exchanged(x)
       /\ Returns(Call("get_status", get_status_frame, 2, 1,
                       get_status_outcome(x), x.data, U32(0, 0), x.writes,
                       x.reads))
  /\ UNCHANGED api
  /\ StUnchanged

HaltCall ==
  /\ st_pc = "ready"
  /\ pc = "idle"
  /\ WithinBacklog
  /\ \E x \in v1_only(halt_frame, 2) :
       /\ Exchanged(x)
       /\ Returns(Call("halt", halt_frame, 2, 1, x.outcome, x.data,
                       U32(0, 0), x.writes, x.reads))
  /\ UNCHANGED api
  /\ StUnchanged

RunCall ==
  /\ st_pc = "ready"
  /\ pc = "idle"
  /\ WithinBacklog
  /\ \E x \in v1_only(run_frame, 2) :
       /\ Exchanged(x)
       /\ Returns(Call("run", run_frame, 2, 1, x.outcome, x.data, U32(0, 0),
                       x.writes, x.reads))
  /\ UNCHANGED api
  /\ StUnchanged

ReadRegCall ==
  /\ st_pc = "ready"
  /\ pc = "idle"
  /\ WithinBacklog
  /\ \E num \in RegNums :
       \E x \in v1_only(read_reg_frame(num), 4) :
         /\ Exchanged(x)
         /\ Returns(Call("read_reg", read_reg_frame(num), 4, 1,
                         read_reg_outcome(x), x.data, read_reg_value(x),
                         x.writes, x.reads))
  /\ UNCHANGED api
  /\ StUnchanged

(***************************************************************************)
(* stlink.rd_mem8 (lines 287-298).  After the assertion on n, line 294     *)
(* builds the command from DBG_CMD_RDMEM_8BIT, a name the module never     *)
(* binds (the constant it defines is STLINK_DEBUG_READMEM_8BIT): the       *)
(* evaluation raises NameError, before send_recv.                          *)
(***************************************************************************)
rd_mem8(n) ==
  IF n > STLINK_MAX_RW8 THEN { NoExchange("AssertionError") }
  ELSE { NoExchange("NameError") }

\* byte counts: the single byte, a few, the ceiling and one beyond it
RdMem8Counts == { 1, 2, 3, STLINK_MAX_RW8, STLINK_MAX_RW8 + 1 }

RdMem8Call ==
  /\ st_pc = "ready"
  /\ pc = "idle"
  /\ WithinBacklog
  /\ \E n \in RdMem8Counts :
       \E x \in rd_mem8(n) :
         /\ Exchanged(x)
         /\ Returns(Call("rd_mem8", << >>, n, 1, x.outcome, x.data,
                         U32(0, 0), x.writes, x.reads))
  /\ UNCHANGED api
  /\ StUnchanged

(***************************************************************************)
(* stlink.get_version called on the constructed object (lines 163-174):    *)
(* self.api is assigned again from whatever six bytes the exchange gave.   *)
(***************************************************************************)
GetVersionCall ==
  /\ st_pc = "ready"
  /\ pc = "idle"
  /\ WithinBacklog
  /\ \E x \in get_version :
       /\ Exchanged(x)
       /\ api' = IF get_version_outcome(x) = "ok"
                 THEN api_of(get_version_value(x)) ELSE api
       /\ Returns(Call("get_version", << STLINK_GET_VERSION >>, 6, 1,
                       get_version_outcome(x), x.data, U32(0, 0), x.writes,
                       x.reads)
                    @@ [ver |-> get_version_value(x)])
  /\ StUnchanged

(***************************************************************************)
(* stlink.get_voltage (lines 176-182).  factor and reading are the two     *)
(* little-endian words of the answer; 2400 * reading / factor is the floor *)
(* division of unbounded integers, done here one hexadecimal digit at a    *)
(* time on numbers held as [hi, lo], value hi * 65536 + lo.                *)
(***************************************************************************)
\* n / d from hexadecimal digit i down, with quotient q and remainder r so far
RECURSIVE FloorDivFrom(_, _, _, _, _)
FloorDivFrom(n, d, i, q, r) ==
  LET \* 16 * v + digit
      Times16Plus(v, digit) ==
        [hi |-> (16 * v.hi) + (((16 * v.lo) + digit) \div 65536),
         lo |-> ((16 * v.lo) + digit) % 65536]
      \* a >= b
      Geq(a, b) == a.hi > b.hi \/ (a.hi = b.hi /\ a.lo >= b.lo)
      \* a - b, for a >= b
      Sub(a, b) ==
        IF a.lo >= b.lo THEN [hi |-> a.hi - b.hi, lo |-> a.lo - b.lo]
        ELSE [hi |-> a.hi - b.hi - 1, lo |-> (a.lo + 65536) - b.lo]
      \* d * g, for a digit g
      Mul(g) ==
        [hi |-> (d.hi * g) + ((d.lo * g) \div 65536),
         lo |-> (d.lo * g) % 65536]
      \* hexadecimal digit i of n
      DigitAt ==
        IF i >= 4 THEN (n.hi \div Pow2(4 * (i - 4))) % 16
        ELSE (n.lo \div Pow2(4 * i)) % 16
      r2 == Times16Plus(r, DigitAt)
      \* how many times d goes into r2, r2 < 16 * d
      g == CHOOSE k \in 0..15 :
             Geq(r2, Mul(k)) /\ (k = 15 \/ ~Geq(r2, Mul(k + 1)))
  IN  IF i < 0 THEN q
      ELSE FloorDivFrom(n, d, i - 1, Times16Plus(q, g), Sub(r2, Mul(g)))

\* line 181; 2400 * reading is below 2^44
voltage_of(factor, reading) ==
  LET Times2400 ==
        [hi |-> (2400 * reading.hi) + ((2400 * reading.lo) \div 65536),
         lo |-> (2400 * reading.lo) % 65536]
  IN  FloorDivFrom(Times2400, factor, 10, U32(0, 0), U32(0, 0))

\* lines 179-181: x[7] of a short answer, a factor of zero
get_voltage_outcome(x) ==
  IF x.outcome # "ok" THEN x.outcome
  ELSE IF Len(x.data) < 8 THEN "IndexError"
  ELSE IF unpack_u32(SubSeq(x.data, 1, 4)) = U32(0, 0)
  THEN "ZeroDivisionError"
  ELSE "ok"

get_voltage_value(x) ==
  IF get_voltage_outcome(x) = "ok"
  THEN voltage_of(unpack_u32(SubSeq(x.data, 1, 4)),
                  unpack_u32(SubSeq(x.data, 5, 8)))
  ELSE U32(0, 0)

get_voltage == Exchange(<< STLINK_GET_TARGET_VOLTAGE >>, 8)

GetVoltageCall ==
  /\ st_pc = "ready"
  /\ pc = "idle"
  /\ WithinBacklog
  /\ \E x \in get_voltage :
       /\ Exchanged(x)
       /\ Returns(Call("get_voltage", << STLINK_GET_TARGET_VOLTAGE >>, 8, 1,
                       get_voltage_outcome(x), x.data, get_voltage_value(x),
                       x.writes, x.reads))
  /\ UNCHANGED api
  /\ StUnchanged

(***************************************************************************)
(* stlink.get_core_id (lines 190-193): read_u32 of the answer.             *)
(***************************************************************************)
get_core_id_frame == << STLINK_DEBUG_COMMAND, STLINK_DEBUG_READCOREID >>

\* read_u32(x) of line 193
get_core_id_outcome(x) ==
  IF x.outcome = "ok" /\ Len(x.data) # 4 THEN "struct.error" ELSE x.outcome

get_core_id_value(x) ==
  IF get_core_id_outcome(x) = "ok" THEN unpack_u32(x.data) ELSE U32(0, 0)

get_core_id == Exchange(get_core_id_frame, 4)

GetCoreIdCall ==
  /\ st_pc = "ready"
  /\ pc = "idle"
  /\ WithinBacklog
  /\ \E x \in get_core_id :
       /\ Exchanged(x)
       /\ Returns(Call("get_core_id", get_core_id_frame, 4, 1,
                       get_core_id_outcome(x), x.data, get_core_id_value(x),
                       x.writes, x.reads))
  /\ UNCHANGED api
  /\ StUnchanged

\* the transport of a stlink object: usbdev.open has succeeded (line 143)
StTransport ==
  /\ HwIdle
  /\ opened = TRUE
  /\ max_packet_size = FULL_SPEED_MPS
  /\ readbuffer = << >>
  /\ readoffset = 0
  /\ writebuffer_chunksize = WRITE_CHUNKSIZE
  /\ caps_known = FALSE
  /\ caps = U32(0, 0)
  /\ dev_caps = U32(0, 0)
  /\ dev_mps = FULL_SPEED_MPS
  /\ dev_out = << >>
  /\ pc = "idle"
  /\ last = NoCall
  /\ received = << >>
  /\ returned = << >>
  /\ usb_error_seen = FALSE

\* session bring-up: __init__ at line 145, an adapter in any mode
InitStlink ==
  /\ StTransport
  /\ st_pc = "start"
  /\ api = "unset"
  /\ wrappers \in BOOLEAN
  /\ trace = << >>
  /\ dev_mode \in DevModes
  /\ dev_version \in DevVersions

NextStlink ==
  \/ BringUpQueryMode
  \/ BringUpExitDfu
  \/ BringUpEnterSwd
  \/ BringUpGetVersion

SpecStlink == InitStlink /\ [][NextStlink]_vars

\* calls on a stlink object follow its construction: the object is the one
\* __init__ has returned (st_pc = "ready"), with the cache, the adapter and
\* the API revision as bring-up left them
NextStlinkReady ==
  \/ NextStlink
  \/ SendRecvCall
  \/ RdMem8Call
  \/ GetCurrentModeCall
  \/ EnterModeCall
  \/ LeaveModeCall
  \/ Return

SpecStlinkReady == InitStlink /\ [][NextStlinkReady]_vars

\* the queries of the constructed object
NextStlinkQueries ==
  \/ NextStlink
  \/ GetVersionCall
  \/ GetVoltageCall
  \/ GetCoreIdCall
  \/ Return

SpecStlinkQueries == InitStlink /\ [][NextStlinkQueries]_vars

\* the command channel on its own: exchanges on the constructed object
NextSendRecv ==
  \/ NextStlink
  \/ SendRecvCall
  \/ Return

SpecSendRecv == InitStlink /\ [][NextSendRecv]_vars

\* the operations of API revision v1 on the constructed object
NextStlinkV1 ==
  \/ NextStlink
  \/ GetStatusCall
  \/ HaltCall
  \/ RunCall
  \/ ReadRegCall
  \/ Return

SpecStlinkV1 == InitStlink /\ [][NextStlinkV1]_vars

(***************************************************************************)
(* The decoding of the hardware version on its own.  __str__ has reached   *)
(* line 342 on an open object whose capabilities hold                      *)
(* EMU_CAP_GET_HW_VERSION: get_hw_version has written its command and      *)
(* read the four bytes of the answer in one bulk read, which has left      *)
(* them in the cache, all consumed.  The adapter's components are any out  *)
(* of HwVersions, all below 2^31 when packed; lines 345-349 are applied    *)
(* to the number read.                                                     *)
(***************************************************************************)
\* every combination of HwParts, and every value of one component with the
\* other three at their ends
HwVersions ==
  LET HwParts == { 0, 1, 9, 10, 99 }
      HwEnds == { 0, 99 }
  IN  { HwVersion(t, ma, mi, r) :
          t \in HwParts, ma \in HwParts, mi \in HwParts, r \in HwParts }
      \cup { HwVersion(x, a, b, c) :
               x \in 0..99, a \in HwEnds, b \in HwEnds, c \in HwEnds }
      \cup { HwVersion(a, x, b, c) :
               x \in 0..99, a \in HwEnds, b \in HwEnds, c \in HwEnds }
      \cup { HwVersion(a, b, x, c) :
               x \in 0..99, a \in HwEnds, b \in HwEnds, c \in HwEnds }
      \cup { HwVersion(a, b, c, x) :
               x \in 0..99, a \in HwEnds, b \in HwEnds, c \in HwEnds }

InitHwVersion ==
  /\ opened = TRUE
  /\ max_packet_size = FULL_SPEED_MPS
  /\ dev_hw \in HwVersions
  /\ readbuffer = LET n == hw_pack(dev_hw)
                  IN  pack_u32(U32(n \div 65536, n % 65536))
  /\ readoffset = 4
  /\ writebuffer_chunksize = WRITE_CHUNKSIZE
  /\ caps_known = TRUE
  /\ caps = Shl1(EMU_CAP_GET_HW_VERSION)
  /\ dev_caps = Shl1(EMU_CAP_GET_HW_VERSION)
  /\ dev_mps = FULL_SPEED_MPS
  /\ dev_out = << >>
  /\ NoStlink
  /\ hw_decoded = NoDecode
  /\ pc = "idle"
  /\ last = NoCall
  /\ received = << >>
  /\ returned = << >>
  /\ usb_error_seen = FALSE

\* lines 342-349: hw_version is the number get_hw_version unpacked from the
\* four bytes it read
DecodeHwVersion ==
  /\ hw_decoded = NoDecode
  /\ LET v == unpack_u32(SubSeq(readbuffer, readoffset - 3, readoffset))
     IN  hw_decoded' = hw_decode((v.hi * 65536) + v.lo)
  /\ UNCHANGED << opened, max_packet_size, readbuffer, readoffset,
                  writebuffer_chunksize, caps_known, caps, dev_caps, dev_mps,
                  dev_out, dev_hw, pc, last, received, returned,
                  usb_error_seen >>
  /\ UNCHANGED stvars

NextHwVersion == DecodeHwVersion

SpecHwVersion == InitHwVersion /\ [][NextHwVersion]_vars

(***************************************************************************)
(* Properties.  In a state with pc = "returned", `last` describes the call *)
(* that has just ended and the other variables hold the state it left.     *)
(***************************************************************************)
IsRead == pc = "returned" /\ last.op = "read_data_bytes"
IsWrite == pc = "returned" /\ last.op = "write_data"
\* bytes the cache held for the call, not yet consumed
PreCached == PyTail(last.pre_buf, last.pre_off)
\* the transport was usable when the call was made
PreInitialized == last.pre_opened /\ max_packet_size # 0
NonEmptyReads == { i \in 1..Len(last.reads) : Len(last.reads[i].raw) > 0 }

\* C1: while no bulk read has raised a USB error, the bytes returned by the
\* logical reads so far are a prefix of the bytes the bulk reads delivered
\* so far (nothing lost, duplicated or reordered), and the delivered bytes
\* not yet returned are exactly the cache from the offset on.
C1_StreamPreserved ==
  ~usb_error_seen =>
    /\ returned = << >>
    /\ received = PyTail(readbuffer, readoffset)

\* a logical read served from cached bytes and two bulk reads
C1_Witness ==
  /\ IsRead /\ ~usb_error_seen /\ last.outcome = "ok"
  /\ PreCached # << >>
  /\ Cardinality(NonEmptyReads) >= 2
  /\ Len(last.data) = last.size

\* C2: a read of at most the cached bytes issues no bulk read and leaves
\* the buffer as it was; on an initialized transport it returns, and what
\* it returns is the next `size` cached bytes, the offset advanced by size.
C2_CacheHit ==
  (IsRead /\ last.size <= Len(PreCached)) =>
    /\ last.reads = << >>
    /\ readbuffer = last.pre_buf
    /\ PreInitialized => last.outcome = "ok"
    /\ last.outcome = "ok" =>
         /\ last.data = SubSeq(last.pre_buf, last.pre_off + 1,
                               last.pre_off + last.size)
         /\ Len(last.data) = last.size
         /\ readoffset = last.pre_off + last.size

\* a read of exactly the bytes the cache holds, at least two
C2_Witness ==
  /\ IsRead /\ last.outcome = "ok"
  /\ last.size = Len(PreCached) /\ last.size >= 2
  /\ last.pre_off > 0

\* C3: a read of more than the cached bytes that returns, returns the
\* cached bytes followed by the bytes of its bulk reads in arrival order,
\* cut to `size`: exactly `size` bytes, or fewer (a short read), never more.
C3_ReadBeyondCache ==
  (IsRead /\ last.size > Len(PreCached) /\ last.outcome = "ok") =>
    LET all == PreCached \o Delivered(last.reads)
    IN  /\ Len(last.data) <= last.size
        /\ last.data = SubSeq(all, 1, Min(last.size, Len(all)))

\* a short read made of cached bytes and a bulk read
C3_Witness ==
  /\ IsRead /\ last.outcome = "ok"
  /\ PreCached # << >>
  /\ NonEmptyReads # {}
  /\ Len(last.data) < last.size
  /\ Len(last.data) > Len(PreCached)

\* every bulk write of the call took between 1 and all of the bytes given
AllAccepted ==
  \A i \in 1..Len(last.writes) :
    /\ ~last.writes[i].err
    /\ last.writes[i].ret >= 1
    /\ last.writes[i].ret <= Len(last.writes[i].chunk)

\* C4: when every bulk write accepts a positive number of the bytes it is
\* given, write_data on an opened transport returns the payload length and
\* the bytes accepted, in order, are exactly the payload, for every chunk
\* size; an empty payload issues no bulk write and returns 0.
C4_WriteWhole ==
  IsWrite =>
    /\ (last.pre_opened /\ AllAccepted) => last.outcome = "ok"
    /\ last.outcome = "ok" =>
         /\ OnWire(last.writes) = last.payload
         /\ last.value = U32(0, Len(last.payload))
    /\ last.payload = << >> =>
         /\ last.writes = << >>
         /\ last.outcome = "ok"
         /\ last.value = U32(0, 0)

\* a payload that went out in two bulk writes, the first of them partial
C4_Witness ==
  /\ IsWrite /\ last.outcome = "ok" /\ AllAccepted
  /\ Len(last.writes) = 2
  /\ last.writes[1].ret < Len(last.writes[1].chunk)

\* C5: a bulk write that returns zero or less ends write_data with the
\* transport error, and it is the last bulk write of the call.
C5_WriteFails ==
  IsWrite =>
    \A i \in 1..Len(last.writes) :
      (~last.writes[i].err /\ last.writes[i].ret <= 0) =>
        /\ last.outcome \in JLinkErrors
        /\ i = Len(last.writes)

\* the first of two chunks is refused and the second is never written
C5_Witness ==
  /\ IsWrite /\ last.outcome = ErrBulkWrite
  /\ Len(last.payload) = 2 /\ last.chunksize = 1
  /\ Len(last.writes) = 1
  /\ last.writes[1].ret = 0

\* C6: a read or a write on a transport that open has not initialized
\* fails with the transport error and performs no USB I/O.
C6_UninitializedFails ==
  ((IsRead \/ IsWrite) /\ ~last.pre_opened) =>
    /\ last.outcome \in JLinkErrors
    /\ last.writes = << >>
    /\ last.reads = << >>

IsGated ==
  pc = "returned"
    /\ last.op \in { "get_hw_version", "get_config", "get_max_mem_block" }
    /\ last.pre_caps_known
\* the capability bit the claim names for each operation
BitOf(op) ==
  CASE op = "get_hw_version" -> 1
    [] op = "get_config" -> 4
    [] op = "get_max_mem_block" -> 11
\* (mask >> b) & 1, b < 16
MaskBit(mask, b) == (mask.lo \div Pow2(b)) % 2

\* C7: a gated operation called with its bit clear in the session's mask
\* raises the unsupported-command error without a bulk write or a bulk read;
\* with the bit set, the command is written.
C7_CapabilityGate ==
  IsGated =>
    IF MaskBit(last.pre_caps, BitOf(last.op)) = 0
    THEN /\ last.outcome = ErrUnsupported
         /\ last.writes = << >>
         /\ last.reads = << >>
    ELSE /\ last.outcome # ErrUnsupported
         /\ last.writes # << >>
         /\ last.writes[1].chunk = last.payload

\* refused although every other bit of the mask is set
C7_Witness ==
  /\ IsGated /\ last.op = "get_max_mem_block"
  /\ last.pre_caps = U32(65535, 63469)
  /\ last.outcome = ErrUnsupported

(***************************************************************************)
(* Session bring-up (SpecStlink).                                          *)
(***************************************************************************)
BringUpEnded == st_pc \in { "ready", "failed" }

LeaveDfuFrame == << STLINK_DFU_COMMAND, STLINK_DFU_EXIT >>

IsEnterSwd(frame) == IsEnterDebug(frame) /\ frame[3] = STLINK_DEBUG_ENTER_SWD

\* the adapter did what every mode command that reached it asked for
Honoured ==
  \A i \in DOMAIN trace :
    /\ trace[i].frame = LeaveDfuFrame => trace[i].dev_after = "mass"
    /\ IsEnterSwd(trace[i].frame) => trace[i].dev_after = "debug"

\* no bulk transfer failed and no answer was short
TransfersFine ==
  \A i \in DOMAIN trace :
    trace[i].outcome \notin (JLinkErrors \cup { "IndexError" })

\* the position in `trace` of the second mode query
Requery == IF trace[1].value = "dfu" THEN 3 ELSE 2

\* the calls made so far follow the order of the connection protocol
BringUpOrder ==
  /\ Len(trace) >= 1 => trace[1].op = "get_current_mode"
  /\ (Len(trace) >= 2 /\ trace[1].value = "dfu") =>
       trace[2].op = "exit_dfu_mode"
  /\ Len(trace) >= 1 =>
       /\ Len(trace) >= Requery => trace[Requery].op = "get_current_mode"
       /\ Len(trace) > Requery =>
            IF trace[Requery].value # "debug"
            THEN trace[Requery + 1].op = "enter_swd_mode"
            ELSE trace[Requery + 1].op = "get_version"

\* C8: bring-up queries the mode, leaves DFU if and only if DFU was
\* reported, queries the mode again and enters SWD if and only if that
\* second mode is not Debug; started on an adapter in DFU that honours
\* leave-DFU and enter-SWD, with no transfer failing, it ends with the
\* adapter in Debug.
C8_BringUpReachesDebug ==
  /\ BringUpOrder
  /\ (BringUpEnded /\ trace[1].dev_before = "dfu" /\ Honoured
        /\ TransfersFine) =>
       dev_mode = "debug"

C10_ExchangeExact ==
  (pc = "returned" /\ last.op = "send_recv" /\ last.size > 0
     /\ last.outcome = "ok") =>
    Len(last.data) = last.size

\* C11: within one send_recv, those of bring-up included, every bulk write
\* of the command precedes every bulk read of the response; an empty
\* command issues no bulk write; a response size of zero issues no bulk
\* read and yields no bytes.
C11_WriteThenRead ==
  /\ \A k \in DOMAIN trace : trace[k].write_first
  /\ (pc = "returned" /\ last.op = "send_recv") =>
       /\ Len(last.io) = Len(last.writes) + Len(last.reads)
       /\ \A i \in DOMAIN last.io : \A j \in DOMAIN last.io :
            (last.io[i] = "read" /\ last.io[j] = "write") => j < i
       /\ Len(last.payload) = 0 => last.writes = << >>
       /\ last.size = 0 => (last.reads = << >> /\ last.data = << >>)

\* a command was written and its response read in the same exchange
C11_Witness ==
  /\ pc = "returned"
  /\ last.op = "send_recv"
  /\ last.outcome = "ok"
  /\ Len(last.writes) >= 1
  /\ Len(last.reads) >= 1
  /\ Len(last.data) = last.size

(***************************************************************************)
(* The attempt budget of a logical read (Spec).                            *)
(***************************************************************************)
\* the positions of the bulk reads of the last call that returned no bytes
EmptyReads ==
  { i \in DOMAIN last.reads :
      ~last.reads[i].err /\ last.reads[i].raw = << >> }

\* C12: with the default attempt budget, the one of read_data, a logical
\* read does not give up on its first empty bulk read: that read is ignored
\* and one more bulk read is issued.
C12_IgnoresOneEmptyRead ==
  (IsRead /\ last.attempt = 1 /\ EmptyReads # {}) =>
    \E i \in EmptyReads :
      /\ \A j \in EmptyReads : i <= j
      /\ Len(last.reads) > i

(***************************************************************************)
(* The operations of API revision v1 (SpecStlinkV1).                       *)
(***************************************************************************)
V1Ops == { "get_status", "halt", "run", "read_reg" }

\* C13: get_status, halt, run and read_reg, called on a session whose
\* derived API revision is v2, fail with the assertion on the revision
\* before any bulk write or bulk read: no frame is sent.
C13_V1OnlyFailsFast ==
  (pc = "returned" /\ last.op \in V1Ops /\ api = "v2") =>
    /\ last.outcome = "AssertionError"
    /\ last.writes = << >>
    /\ last.reads = << >>
    /\ dev_out = << >>

\* a v1-only operation has been refused on a v2 session
C13_Witness ==
  /\ pc = "returned"
  /\ last.op = "read_reg"
  /\ api = "v2"
  /\ last.outcome = "AssertionError"

(***************************************************************************)
(* The hardware version (SpecHwVersion).                                   *)
(***************************************************************************)
\* C14: decoding the packed hardware version type*1000000 + major*10000
\* + minor*100 + revision, each component in 0..99, gives back exactly
\* type, major, minor and revision.
C14_HwVersionRoundTrip ==
  hw_decoded # NoDecode =>
    hw_decoded = HwDecoded("ok", dev_hw.type, dev_hw.major, dev_hw.minor,
                           dev_hw.revision)

(***************************************************************************)
(* Memory reads (SpecStlinkReady).                                         *)
(***************************************************************************)
\* C15: rd_mem8 of 1 <= n <= 64 bytes returns: it sends its command, reads
\* the bytes (two of them for n = 1, n otherwise) and returns a result of
\* n elements.
C15_ReadMemoryBytes ==
  (pc = "returned" /\ last.op = "rd_mem8" /\ last.size \in 1..STLINK_MAX_RW8)
    =>
    /\ last.outcome = "ok"
    /\ Len(last.writes) >= 1
    /\ Len(Delivered(last.reads)) = (IF last.size = 1 THEN 2 ELSE last.size)
    /\ Len(last.data) = last.size

(***************************************************************************)
(* The firmware version (SpecJLinkVersion).                                *)
(***************************************************************************)
IsGetVersion ==
  pc = "returned" /\ last.op = "get_version" /\ last.outcome = "ok"

NotNull(b) == b # 0

\* the positions of last.data where a run of non-null bytes begins
FragmentStarts ==
  { i \in DOMAIN last.data :
      last.data[i] # 0 /\ (i = 1 \/ last.data[i - 1] = 0) }

\* the bytes the cache and the bulk reads of the call supplied
Supplied == PreCached \o Delivered(last.reads)

\* C16: get_version writes the one-byte version command, reads a 2-byte
\* little-endian length n and then n bytes, and returns the non-empty
\* fragments of those bytes between the nulls, in order; when one bulk
\* read delivers the length and the whole blob, the blob is served from
\* the cache with no further bulk read.
C16_GetVersion ==
  IsGetVersion =>
    /\ OnWire(last.writes) = << EMU_CMD_VERSION >>
    /\ Len(Supplied) >= 2
    /\ last.n = Supplied[1] + (256 * Supplied[2])
    /\ last.data = SubSeq(Supplied, 3, Min(2 + last.n, Len(Supplied)))
    /\ \A i \in DOMAIN last.fragments :
         /\ Len(last.fragments[i]) > 0
         /\ \A k \in DOMAIN last.fragments[i] : last.fragments[i][k] # 0
    /\ Concat(last.fragments) = SelectSeq(last.data, NotNull)
    /\ Len(last.fragments) = Cardinality(FragmentStarts)
    /\ (PreCached = << >> /\ Len(last.reads1) = 1
          /\ Len(last.reads1[1].raw) >= 2 + last.n) =>
         (last.reads2 = << >> /\ Len(last.data) = last.n)

\* length and blob came in one bulk read; the blob, with its two adjacent
\* nulls, was served from the cache and split into "J" and "V"
C16_Witness ==
  /\ IsGetVersion
  /\ PreCached = << >>
  /\ Len(last.reads) = 1
  /\ last.n = Len(DevVersionBlob)
  /\ last.data = DevVersionBlob
  /\ last.fragments = << << 74 >>, << 86 >> >>

\* C17: in every state the driver can reach, whatever calls were made and
\* however they ended, the read offset lies inside the cache:
\* 0 <= readoffset <= len(readbuffer).
C17_OffsetInCache ==
  /\ 0 <= readoffset
  /\ readoffset <= Len(readbuffer)

\* a read refilled the cache from the device and returned with the offset
\* strictly inside it
C17_Witness ==
  /\ pc = "returned"
  /\ IsRead
  /\ last.outcome = "ok"
  /\ Len(last.reads) > 0
  /\ 0 < readoffset
  /\ readoffset < Len(readbuffer)

\* C18: an empty bulk read inside read_data_bytes(size, attempt) is followed
\* by another bulk read exactly while budget remains (the budget is spent by
\* every bulk read of the call); the empty read that exhausts it ends the
\* call without an error, with the bytes gathered so far, fewer than size,
\* the cache empty and the offset 0.  A call all of whose bulk reads are
\* empty issues exactly max(attempt, 1) of them.
C18_EmptyReadRetried ==
  IsRead =>
    LET n == Len(last.reads)
    IN  /\ \A k \in EmptyReads : (k < n) <=> (last.attempt - k > 0)
        /\ n \in EmptyReads =>
              /\ last.outcome = "ok"
              /\ last.data = PreCached \o Delivered(last.reads)
              /\ Len(last.data) < last.size
              /\ readbuffer = << >>
              /\ readoffset = 0
        /\ (n > 0 /\ EmptyReads = 1..n) => n = Max(last.attempt, 1)

\* a read with a budget of two drained the cache, met an empty bulk read,
\* retried, met another and returned short
C18_Witness ==
  /\ IsRead
  /\ last.attempt >= 2
  /\ PreCached # << >>
  /\ Len(last.reads) = last.attempt
  /\ EmptyReads = 1..Len(last.reads)
  /\ last.data = PreCached
  /\ readbuffer = << >>

\* C19: a call of read_data_bytes(size, attempt), size >= 0, ends (it returns
\* or raises) after at most size + max(attempt, 1) bulk reads, whatever the
\* bulk reads deliver.
C19_BoundedBulkReads ==
  IsRead => Len(last.reads) <= last.size + Max(last.attempt, 1)

\* a call that ended after four bulk reads, empty and non-empty ones
C19_Witness ==
  /\ IsRead
  /\ EmptyReads # {}
  /\ NonEmptyReads # {}
  /\ Len(last.reads) >= 4

(***************************************************************************)
(* The status bytes of a bulk read (Spec).                                 *)
(***************************************************************************)
\* the call ended on a bulk read that brought bytes
EndedOnData ==
  /\ IsRead
  /\ last.reads # << >>
  /\ Len(last.reads) \in NonEmptyReads

\* the raw buffer of the last bulk read of the call
LastRaw == last.reads[Len(last.reads)].raw

\* the max_packet_size quanta of the last raw buffer
Quanta == (Len(LastRaw) + max_packet_size - 1) \div max_packet_size

\* C20: after a non-empty bulk read the cache holds the data regions of the
\* raw buffer's max_packet_size quanta and nothing else: the status byte of
\* every quantum is gone from it, the bytes cached before are gone, and the
\* offset counts from zero the bytes the call took from it.
C20_StatusBytesDiscarded ==
  EndedOnData =>
    /\ Len(readbuffer) <= Len(LastRaw) - Quanta
    /\ readoffset <= Len(readbuffer)

(***************************************************************************)
(* The frame of enter_mode (SpecStlinkReady).                              *)
(***************************************************************************)
IsEnterMode == pc = "returned" /\ last.op = "enter_mode"

\* the command the connection protocol prescribes for a target under an API
\* revision, byte by byte
EnterCommand(apiv, mode) ==
  IF mode = "swim" THEN << 244, 0 >>
  ELSE << 242, IF apiv = "v2" THEN 48 ELSE 32,
          IF mode = "swd" THEN 163 ELSE 0 >>

\* C21: enter_mode(target) on a session whose revision is derived puts on
\* the wire (0xF2, 0x20 under v1 or 0x30 under v2, 0x00 for JTAG or 0xA3
\* for SWD), or (0xF4, 0x00) for SWIM, and nothing else; under v1 it reads
\* no response, under v2 it asks for 2 bytes; any other target fails with
\* no bulk write and no bulk read.
C21_EnterModeFrame ==
  (IsEnterMode /\ api \in { "v1", "v2" }) =>
    IF last.mode \in { "jtag", "swd", "swim" }
    THEN /\ IsPrefix(OnWire(last.writes), EnterCommand(api, last.mode))
         /\ last.outcome = "ok" =>
               OnWire(last.writes) = EnterCommand(api, last.mode)
         /\ last.size = (IF api = "v2" THEN 2 ELSE 0)
         /\ Len(last.data) <= last.size
         /\ api = "v1" => last.reads = << >>
         /\ last.outcome = "ok" => (last.none <=> api = "v1")
    ELSE /\ last.outcome = "AssertionError"
         /\ last.writes = << >>
         /\ last.reads = << >>

\* enter_mode('swd') under v2 wrote its frame and read the two-byte answer
C21_Witness ==
  /\ IsEnterMode
  /\ api = "v2"
  /\ last.mode = "swd"
  /\ last.outcome = "ok"
  /\ OnWire(last.writes) = << 242, 48, 163 >>
  /\ Len(last.data) = 2

(***************************************************************************)
(* The API revision in session bring-up (SpecStlink).                      *)
(***************************************************************************)
\* C22: in session bring-up every call that enters a mode comes after a
\* version query of the same bring-up that completed, so that the API
\* revision is derived before the enter command is framed.
C22_VersionBeforeEnter ==
  \A i \in DOMAIN trace :
    trace[i].op = "enter_swd_mode" =>
      \E j \in 1..(i - 1) :
        /\ trace[j].op = "get_version"
        /\ trace[j].outcome = "ok"

(***************************************************************************)
(* What spends the attempt budget (Spec).                                  *)
(***************************************************************************)
\* the bulk reads of the last call before position i that brought bytes
NonEmptyBefore(i) == { j \in NonEmptyReads : j < i }

\* the position of the first empty bulk read of the last call
FirstEmpty == CHOOSE i \in EmptyReads : \A j \in EmptyReads : i <= j

\* C23: every bulk read of a call spends its attempt budget, the ones that
\* bring bytes too: an empty bulk read that comes after k non-empty ones is
\* followed by another bulk read only if attempt - k - 1 > 0, and the first
\* empty one exactly if so.
C23_BudgetSpentByEveryRead ==
  IsRead =>
    /\ \A i \in EmptyReads :
         i < Len(last.reads) =>
           last.attempt - Cardinality(NonEmptyBefore(i)) - 1 > 0
    /\ EmptyReads # {} =>
         (FirstEmpty < Len(last.reads)
            <=> last.attempt - Cardinality(NonEmptyBefore(FirstEmpty)) - 1 > 0)

\* a call with a budget of two received bytes, then gave up on its first
\* empty bulk read
C23_Witness ==
  /\ IsRead
  /\ last.attempt >= 2
  /\ last.outcome = "ok"
  /\ NonEmptyReads # {}
  /\ EmptyReads = { Len(last.reads) }
  /\ Len(last.data) < last.size

(***************************************************************************)
(* A USB error inside a logical read (Spec).                               *)
(***************************************************************************)
\* C24: a read_data_bytes call one of whose bulk reads raises a USB error
\* fails with the transport error; it returns none of the bytes it had
\* gathered, and it leaves the offset at the end of the cache, so that the
\* cached bytes it had drained are consumed and no later read returns them.
C24_UsbErrorDropsDrained ==
  (IsRead /\ HasUsbError(last.reads)) =>
    /\ last.outcome = ErrUsb
    /\ last.outcome \in JLinkErrors
    /\ last.data = << >>
    /\ readoffset = Len(readbuffer)
    /\ PyTail(readbuffer, readoffset) = << >>

\* the call drained two cached bytes and its first bulk read raised
C24_Witness ==
  /\ IsRead
  /\ HasUsbError(last.reads)
  /\ Len(PreCached) >= 2
  /\ Len(last.reads) = 1
  /\ readbuffer = last.pre_buf
  /\ last.pre_off < readoffset

(***************************************************************************)
(* The read cache across a write (Spec).                                   *)
(***************************************************************************)
\* C25: write_data, whether it returns or raises, leaves the cache and the
\* offset as it found them; and a read that returns, returns the bytes the
\* cache still held before any byte of its own bulk reads, so the bytes an
\* earlier read left over come out ahead of the answer to a command written
\* since.
C25_WriteKeepsCache ==
  /\ IsWrite =>
       /\ readbuffer = last.pre_buf
       /\ readoffset = last.pre_off
  /\ (IsRead /\ last.outcome = "ok") =>
       /\ IsPrefix(last.data, PreCached \o Delivered(last.reads))
       /\ Len(last.data) >= Min(last.size, Len(PreCached))

\* a command was written whole, and answered by the device, while the cache
\* still held bytes left over by an earlier read
C25_Witness ==
  /\ IsWrite
  /\ last.outcome = "ok"
  /\ last.payload # << >>
  /\ OnWire(last.writes) = last.payload
  /\ PreCached # << >>
  /\ PyTail(readbuffer, readoffset) = PreCached
  /\ dev_out # << >>

(***************************************************************************)
(* The internal faults of a logical read (Spec).                           *)
(***************************************************************************)
\* C26: no call of read_data_bytes with size >= 0, made with the offset
\* inside the cache, ends in either internal fault: neither the
\* AssertionError of a negative part_size nor the trailing
\* JLinkError("Internal error").
C26_NoInternalFault ==
  (IsRead /\ last.size >= 0 /\ 0 <= last.pre_off
     /\ last.pre_off <= Len(last.pre_buf)) =>
    /\ last.outcome # "AssertionError"
    /\ last.outcome # ErrInternal

\* a call went through a partial drain, a whole copy and a partial copy
C26_Witness ==
  /\ IsRead
  /\ last.outcome = "ok"
  /\ PreCached # << >>
  /\ Cardinality(NonEmptyReads) = 2
  /\ Len(last.data) = last.size
  /\ readoffset < Len(readbuffer)

====
